---- MODULE Spec2Model ----
(***************************************************************************)
(* A model of the reference backend of libgit2 (src/refs.c): loose refs,   *)
(* the packed-refs file and its in-memory cache, and the reference API     *)
(* (lookup, create, set, delete, rename, resolve, packall).                *)
(*                                                                         *)
(* Ref names are sequences of one-character strings, so that the byte-wise *)
(* tests of the code (prefix tests, the '/' after a common prefix, the     *)
(* collapse of "//") are computed, not assumed.  Files hold tokens (a run  *)
(* of 40 hex digits, the "ref: " header, a name, LF, CR), so that writing  *)
(* and parsing are two different computations.                             *)
(***************************************************************************)
EXTENDS Integers, Sequences, FiniteSets, TLC

\* --------------------------------------------------------------- bounds
\* The number of API calls of one session.
MaxOps == 2
\* The longest chain of symbolic refs of the repositories resolve is run on.
MaxChain == 6
\* The number of pieces the names given to normalize_name are made of.
MaxParts == 3
\* The number of lines of a packed-refs file after its header.
MaxLines == 3

\* ------------------------------------------------------------ constants
MAX_NESTING_LEVEL == 5
GIT_PACKREF_HAS_PEEL == 1
GIT_PACKREF_WAS_LOOSE == 2
\* refs.h: the size of the buffer a normalized name is written to.
GIT_REFNAME_MAX == 1024

\* Return codes.  The code returns GIT_SUCCESS, a GIT_E* code, or -1 with an
\* error message set; a -1 is named here after its message.
OK == "OK"
ENOTFOUND == "ENOTFOUND"
EEXISTS == "EEXISTS"
EINVALIDREFNAME == "EINVALIDREFNAME"
EOBJCORRUPTED == "EOBJCORRUPTED"
EPACKEDREFSCORRUPTED == "EPACKEDREFSCORRUPTED"
EOSERR == "EOSERR"
\* -1, "Target OID for the reference doesn't exist on the repository"
EINVTARGET == "EINVTARGET"
\* -1, "Cannot set OID on symbolic reference" and its converse
EWRONGTYPE == "EWRONGTYPE"
\* -1, "Symbolic reference too nested"
ETOONESTED == "ETOONESTED"
\* -1, "Reference ... stopped existing in the packfile"
ESTOPPED == "ESTOPPED"
\* -1, "Failed to update HEAD after renaming reference"
EHEADUPDATE == "EHEADUPDATE"
\* -1 with no message of its own (the rollback exit of rename)
ERROR == "ERROR"

\* ---------------------------------------------------------------- names
GIT_REFS_DIR == <<"r", "e", "f", "s", "/">>
GIT_REFS_TAGS_DIR == GIT_REFS_DIR \o <<"t", "a", "g", "s", "/">>
GIT_HEAD_FILE == <<"H", "E", "A", "D">>
GIT_MERGE_HEAD_FILE == <<"M", "E", "R", "G", "E", "_", "H", "E", "A", "D">>
GIT_FETCH_HEAD_FILE == <<"F", "E", "T", "C", "H", "_", "H", "E", "A", "D">>
GIT_FILELOCK_EXTENSION == <<".", "l", "o", "c", "k">>

\* The byte values of the characters the model uses.
OrdTable ==
  (" " :> 32) @@
  ("*" :> 42) @@
  ("-" :> 45) @@
  ("." :> 46) @@
  ("/" :> 47) @@
  (":" :> 58) @@
  ("?" :> 63) @@
  ("@" :> 64) @@
  ("A" :> 65) @@
  ("C" :> 67) @@
  ("D" :> 68) @@
  ("E" :> 69) @@
  ("F" :> 70) @@
  ("G" :> 71) @@
  ("H" :> 72) @@
  ("M" :> 77) @@
  ("R" :> 82) @@
  ("T" :> 84) @@
  ("[" :> 91) @@
  ("\\" :> 92) @@
  ("^" :> 94) @@
  ("_" :> 95) @@
  ("a" :> 97) @@
  ("b" :> 98) @@
  ("c" :> 99) @@
  ("d" :> 100) @@
  ("e" :> 101) @@
  ("f" :> 102) @@
  ("g" :> 103) @@
  ("h" :> 104) @@
  ("k" :> 107) @@
  ("l" :> 108) @@
  ("m" :> 109) @@
  ("o" :> 111) @@
  ("p" :> 112) @@
  ("r" :> 114) @@
  ("s" :> 115) @@
  ("t" :> 116) @@
  ("v" :> 118) @@
  ("x" :> 120) @@
  ("{" :> 123) @@
  ("~" :> 126)

Ord(ch) == OrdTable[ch]

\* git__prefixcmp(str, prefix) == 0
HasPrefix(str, prefix) ==
  /\ Len(str) >= Len(prefix)
  /\ SubSeq(str, 1, Len(prefix)) = prefix

\* git__suffixcmp(str, suffix) == 0
HasSuffix(str, suffix) ==
  /\ Len(str) >= Len(suffix)
  /\ SubSeq(str, Len(str) - Len(suffix) + 1, Len(str)) = suffix

\* strcmp(a, b) < 0, bytes compared as unsigned values, the shorter string
\* first when it is a prefix of the longer.
RECURSIVE StrLess(_, _)
StrLess(a, b) ==
  IF b = <<>> THEN FALSE
  ELSE IF a = <<>> THEN TRUE
  ELSE IF Ord(Head(a)) # Ord(Head(b)) THEN Ord(Head(a)) < Ord(Head(b))
  ELSE StrLess(Tail(a), Tail(b))

is_valid_ref_char(ch) ==
  /\ ~(Ord(ch) <= 32)
  /\ ch \notin {"~", "^", ":", "\\", "?", "[", "*"}

\* The copying loop of normalize_name: `cur` is the index of *current,
\* `out` the bytes written so far, `room` what is left of out_size.
RECURSIVE normalize_loop(_, _, _, _, _)
normalize_loop(name, cur, out, room, slash) ==
  IF ~(cur <= Len(name) /\ room > 0)
  THEN [rc |-> OK, out |-> out, room |-> room, slash |-> slash]
  ELSE
    LET ch == name[cur] IN
    IF ~is_valid_ref_char(ch)
    THEN [rc |-> EINVALIDREFNAME, out |-> out, room |-> room, slash |-> slash]
    ELSE IF out # <<>> /\ ch = "." /\ out[Len(out)] \in {".", "/"}
    THEN [rc |-> EINVALIDREFNAME, out |-> out, room |-> room, slash |-> slash]
    ELSE IF out # <<>> /\ ch = "{" /\ out[Len(out)] = "@"
    THEN [rc |-> EINVALIDREFNAME, out |-> out, room |-> room, slash |-> slash]
    ELSE IF out # <<>> /\ ch = "/" /\ out[Len(out)] = "/"
    THEN normalize_loop(name, cur + 1, out, room, slash)
    ELSE normalize_loop(name, cur + 1, Append(out, ch), room - 1,
                        slash \/ ch = "/")

\* normalize_name(buffer_out, out_size, name, is_oid_ref): the return code
\* and the normalized name.
normalize_name(out_size, name, is_oid_ref) ==
  LET bad == [rc |-> EINVALIDREFNAME, name |-> <<>>]
      copied(r) ==
        IF r.rc # OK THEN bad
        ELSE IF r.room = 0 THEN bad
        ELSE IF /\ is_oid_ref
                /\ ~r.slash
                /\ name # GIT_HEAD_FILE
                /\ name # GIT_MERGE_HEAD_FILE
                /\ name # GIT_FETCH_HEAD_FILE
        THEN bad
        ELSE IF HasSuffix(name, GIT_FILELOCK_EXTENSION) THEN bad
        \* !(git__prefixcmp(out, "refs/") || strcmp(out, "HEAD")): both zero
        ELSE IF is_oid_ref /\ ~(~HasPrefix(r.out, GIT_REFS_DIR) \/ r.out # GIT_HEAD_FILE)
        THEN bad
        ELSE [rc |-> OK, name |-> r.out]
  IN IF name = <<>> THEN bad
     ELSE IF name[Len(name)] \in {".", "/"} THEN bad
     ELSE copied(normalize_loop(name, 1, <<>>, out_size - 1, FALSE))

\* The names the calls of the model are made with.
RefA == GIT_REFS_DIR \o <<"a">>
RefAB == GIT_REFS_DIR \o <<"a", "/", "b">>
RefB == GIT_REFS_DIR \o <<"b">>
RefNames == {RefA, RefAB, RefB}
HeadX == GIT_HEAD_FILE \o <<"/", "x">>

\* normalize_name(normalized, sizeof(normalized), name, is_oid_ref) as the
\* API functions call it.  The results for the names above are computed
\* once and kept; any other name is computed when asked.
NormalizeMemo ==
  [k \in (RefNames \cup {GIT_HEAD_FILE, HeadX}) \X BOOLEAN |->
     normalize_name(GIT_REFNAME_MAX, k[1], k[2])]

Normalize(name, is_oid_ref) ==
  IF <<name, is_oid_ref>> \in DOMAIN NormalizeMemo
  THEN NormalizeMemo[<<name, is_oid_ref>>]
  ELSE normalize_name(GIT_REFNAME_MAX, name, is_oid_ref)

\* ----------------------------------------------------- object database
\* The objects of the repository, by OID: two commits, an annotated tag of
\* commit 1 and a tag of that tag.  OID 3 names no object.
Odb ==
  (1 :> [type |-> "commit", target |-> 0]) @@
  (2 :> [type |-> "commit", target |-> 0]) @@
  (4 :> [type |-> "tag", target |-> 1]) @@
  (5 :> [type |-> "tag", target |-> 4])

git_odb_exists(id) == id \in DOMAIN Odb

\* ----------------------------------------------------------- filesystem
\* A world is the repository on disk plus the reference cache in memory:
\*   files        path -> tokens, for the loose files that exist
\*   dirs         the directories that exist
\*   packed_refs  the packed-refs file: exists, lines, mtime
\*   packfile     the cache's table: alloc (packfile != NULL) and tab,
\*                name -> packref
\*   packfile_time  the mtime the cache recorded
\*   clock        the time of the last write
LF == [t |-> "LF", oid |-> 0, str |-> <<>>]
CR == [t |-> "CR", oid |-> 0, str |-> <<>>]
SymrefTok == [t |-> "symref", oid |-> 0, str |-> <<>>]
HexTok(id) == [t |-> "hex", oid |-> id, str |-> <<>>]
StrTok(s) == [t |-> "str", oid |-> 0, str |-> s]

\* The path the operating system resolves a joined path to: a run of '/'
\* names the same directory as one '/'.
RECURSIVE FsPath(_)
FsPath(name) ==
  IF Len(name) < 2 THEN name
  ELSE IF name[1] = "/" /\ name[2] = "/" THEN FsPath(Tail(name))
  ELSE <<name[1]>> \o FsPath(Tail(name))

Ancestors(p) == {SubSeq(p, 1, i - 1) : i \in {j \in 1..Len(p) : p[j] = "/"}}

IsUnder(p, dir) == HasPrefix(p, dir \o <<"/">>)

git_path_isfile(w, p) == p \in DOMAIN w.files
git_path_isdir(w, p) == p \in w.dirs
git_path_exists(w, p) == git_path_isfile(w, p) \/ git_path_isdir(w, p)

\* p_unlink
p_unlink(w, p) ==
  IF git_path_isfile(w, p)
  THEN [rc |-> OK,
        w |-> [w EXCEPT !.files = [q \in DOMAIN w.files \ {p} |-> w.files[q]]]]
  ELSE [rc |-> EOSERR, w |-> w]

\* git_filebuf_open(GIT_FILEBUF_FORCE), printf, git_filebuf_commit: the
\* leading directories are made, the lock file is written and renamed over
\* the path.  A leading component that is a file, or a directory at the
\* path, fails the write.
filebuf_write(w, p, data) ==
  IF \E a \in Ancestors(p) : git_path_isfile(w, a)
  THEN [rc |-> EOSERR, w |-> w]
  ELSE
    LET w1 == [w EXCEPT !.dirs = w.dirs \cup Ancestors(p)] IN
    IF git_path_isdir(w1, p)
    THEN [rc |-> EOSERR, w |-> w1]
    ELSE [rc |-> OK,
          w |-> [w1 EXCEPT !.files =
                   [q \in DOMAIN w.files \cup {p} |->
                      IF q = p THEN data ELSE w.files[q]]]]

\* git_futils_rmdir_r(path, force = 0): removes a tree of directories and
\* fails on a file in it.
git_futils_rmdir_r(w, p) ==
  IF \E q \in DOMAIN w.files : IsUnder(q, p)
  THEN [rc |-> EOSERR, w |-> w]
  ELSE [rc |-> OK,
        w |-> [w EXCEPT !.dirs = {d \in w.dirs : d # p /\ ~IsUnder(d, p)}]]

\* The files git_path_direach reaches from refs/, the callbacks recursing
\* into directories.
LooseUnderRefs(w) == {p \in DOMAIN w.files : HasPrefix(p, GIT_REFS_DIR)}

\* ---------------------------------------------------------- loose store
\* A reference handle: name, flags (a subset of OID, SYMBOLIC, PACKED), the
\* oid and the symbolic target of the union.
NewRef(name) == [name |-> name, flags |-> {}, oid |-> 0, symbolic |-> <<>>]

IndexOfLF(data) ==
  IF \E i \in 1..Len(data) : data[i] = LF
  THEN CHOOSE i \in 1..Len(data) : data[i] = LF /\ \A j \in 1..(i - 1) : data[j] # LF
  ELSE 0

\* loose_parse_symbolic: the header has been seen; the target is what
\* follows it up to the newline, a CR before the newline dropped.
loose_parse_symbolic(data) ==
  IF Len(data) < 2 THEN [rc |-> EOBJCORRUPTED, symbolic |-> <<>>]
  ELSE IF IndexOfLF(data) = 0 THEN [rc |-> EOBJCORRUPTED, symbolic |-> <<>>]
  ELSE [rc |-> OK,
        symbolic |-> IF data[2].t = "str" THEN data[2].str ELSE <<>>]

\* loose_parse_oid: 40 hex digits, an optional CR, a newline.
loose_parse_oid(data) ==
  IF Len(data) < 2 THEN [rc |-> EOBJCORRUPTED, oid |-> 0]
  ELSE IF data[1].t # "hex" THEN [rc |-> EOBJCORRUPTED, oid |-> 0]
  ELSE
    LET at == IF data[2] = CR THEN 3 ELSE 2 IN
    IF at <= Len(data) /\ data[at] = LF
    THEN [rc |-> OK, oid |-> data[1].oid]
    ELSE [rc |-> EOBJCORRUPTED, oid |-> data[1].oid]

\* loose_lookup on a handle that has no mtime yet (every handle of this
\* model comes from reference_alloc, which zeroes it, so the file always
\* counts as updated).  A path that cannot be read is "not found".
loose_lookup(w, ref) ==
  LET parsed_symbolic(r) ==
        [rc |-> r.rc,
         ref |-> [ref EXCEPT !.flags = {"SYMBOLIC"}, !.symbolic = r.symbolic]]
      parsed_oid(r) ==
        [rc |-> r.rc,
         ref |-> [ref EXCEPT !.flags = {"OID"}, !.symbolic = <<>>,
                             !.oid = IF r.rc = OK THEN r.oid ELSE ref.oid]]
      guess_rtype(data) ==
        IF data # <<>> /\ data[1] = SymrefTok
        THEN parsed_symbolic(loose_parse_symbolic(data))
        ELSE parsed_oid(loose_parse_oid(data))
      read(p) ==
        IF ~git_path_isfile(w, p) THEN [rc |-> ENOTFOUND, ref |-> ref]
        ELSE guess_rtype(w.files[p])
  IN read(FsPath(ref.name))

\* loose_lookup_to_packfile: the packref of a loose file, parsed as a
\* direct ref whatever it holds.
loose_lookup_to_packfile(w, name) ==
  IF ~git_path_isfile(w, name) THEN [rc |-> ENOTFOUND, oid |-> 0]
  ELSE loose_parse_oid(w.files[name])

\* loose_write
loose_write(w, ref) ==
  LET p == FsPath(ref.name) IN
  IF "OID" \in ref.flags
  THEN filebuf_write(w, p, <<HexTok(ref.oid), LF>>)
  ELSE IF "SYMBOLIC" \in ref.flags
  THEN filebuf_write(w, p, <<SymrefTok, StrTok(ref.symbolic), LF>>)
  ELSE [rc |-> EOBJCORRUPTED, w |-> w]

\* loose_write by the changes it makes to the disk.  git_filebuf_open with
\* FORCE makes the leading directories and the lock file, over one that is
\* there; git_filebuf_printf writes to the lock file; git_filebuf_commit
\* renames the lock file over the path.
LockPath(p) == p \o GIT_FILELOCK_EXTENSION

git_filebuf_open(w, p) ==
  IF \E a \in Ancestors(p) : git_path_isfile(w, a)
  THEN [rc |-> EOSERR, w |-> w]
  ELSE [rc |-> OK,
        w |-> [w EXCEPT !.dirs = w.dirs \cup Ancestors(p),
                        !.files = [q \in DOMAIN w.files \cup {LockPath(p)} |->
                                     IF q = LockPath(p) THEN <<>> ELSE w.files[q]]]]

git_filebuf_printf(w, p, data) ==
  [w EXCEPT !.files[LockPath(p)] = w.files[LockPath(p)] \o data]

git_filebuf_commit(w, p) ==
  LET unlocked(files) == [q \in DOMAIN files \ {LockPath(p)} |-> files[q]]
  IN IF git_path_isdir(w, p)
     THEN [rc |-> EOSERR, w |-> [w EXCEPT !.files = unlocked(w.files)]]
     ELSE [rc |-> OK,
           w |-> [w EXCEPT !.files =
                    unlocked([q \in DOMAIN w.files \cup {p} |->
                                IF q = p THEN w.files[LockPath(p)] ELSE w.files[q]])]]

\* The opening of loose_write with the file of the ref unlinked first.
loose_write_open_unlinked(w, ref) ==
  git_filebuf_open(p_unlink(w, FsPath(ref.name)).w, FsPath(ref.name))

\* loose_write down to git_filebuf_open.
loose_write_open(w, ref) == git_filebuf_open(w, FsPath(ref.name))

\* loose_write: the printf of the OID or of the target.  A handle of no
\* kind fails and the lock file is removed.
loose_write_printf(w, ref) ==
  LET p == FsPath(ref.name) IN
  IF "OID" \in ref.flags
  THEN [rc |-> OK, w |-> git_filebuf_printf(w, p, <<HexTok(ref.oid), LF>>)]
  ELSE IF "SYMBOLIC" \in ref.flags
  THEN [rc |-> OK,
        w |-> git_filebuf_printf(w, p, <<SymrefTok, StrTok(ref.symbolic), LF>>)]
  ELSE [rc |-> EOBJCORRUPTED,
        w |-> [w EXCEPT !.files =
                 [q \in DOMAIN w.files \ {LockPath(p)} |-> w.files[q]]]]

\* loose_write: git_filebuf_commit.
loose_write_commit(w, ref) == git_filebuf_commit(w, FsPath(ref.name))

\* --------------------------------------------------------- packed store
\* A line of packed-refs: a comment ('#'), a ref line "<hex> <name>", a peel
\* line "^<hex>", or anything else.
CommentLine == [k |-> "comment", oid |-> 0, name |-> <<>>]
RefLine(id, name) == [k |-> "ref", oid |-> id, name |-> name]
PeelLine(id) == [k |-> "peel", oid |-> id, name |-> <<>>]
JunkLine == [k |-> "junk", oid |-> 0, name |-> <<>>]

\* struct packref, without the name (the key of the table).
Packref(id, peel, flags) == [oid |-> id, peel |-> peel, flags |-> flags]

EmptyTab == [n \in {} |-> Packref(0, 0, {})]

\* git_hashtable_insert / insert2: the entry replaces one of the same key.
TabInsert(tab, name, e) ==
  [n \in DOMAIN tab \cup {name} |-> IF n = name THEN e ELSE tab[n]]

\* git_hashtable_remove2
TabRemove(tab, name) == [n \in DOMAIN tab \ {name} |-> tab[n]]

\* packed_parse_oid on line `line`: a ref line gives a packref with no flag.
packed_parse_oid(line) ==
  IF line.k = "ref"
  THEN [rc |-> OK, name |-> line.name, ref |-> Packref(line.oid, 0, {})]
  ELSE [rc |-> EPACKEDREFSCORRUPTED, name |-> <<>>, ref |-> Packref(0, 0, {})]

\* packed_parse_peel on the '^' line after the ref line of `name`: the ref
\* must be under refs/tags/; the peel is stored, the flags are left alone.
packed_parse_peel(name, ref, line) ==
  IF ~HasPrefix(name, GIT_REFS_TAGS_DIR)
  THEN [rc |-> EPACKEDREFSCORRUPTED, ref |-> ref]
  ELSE [rc |-> OK, ref |-> [ref EXCEPT !.peel = line.oid]]

\* The two loops of packed_load over the lines from index i on.
RECURSIVE SkipComments(_, _)
SkipComments(lines, i) ==
  IF i <= Len(lines) /\ lines[i].k = "comment"
  THEN SkipComments(lines, i + 1)
  ELSE i

RECURSIVE packed_parse(_, _, _)
packed_parse(lines, i, tab) ==
  LET with_peel(r, q) ==
        IF q.rc # OK THEN [rc |-> q.rc, tab |-> tab]
        ELSE packed_parse(lines, i + 2, TabInsert(tab, r.name, q.ref))
      with_oid(r) ==
        IF r.rc # OK THEN [rc |-> r.rc, tab |-> tab]
        ELSE IF i + 1 <= Len(lines) /\ lines[i + 1].k = "peel"
        THEN with_peel(r, packed_parse_peel(r.name, r.ref, lines[i + 1]))
        ELSE packed_parse(lines, i + 1, TabInsert(tab, r.name, r.ref))
  IN IF i > Len(lines) THEN [rc |-> OK, tab |-> tab]
     ELSE with_oid(packed_parse_oid(lines[i]))

\* git_futils_readbuffer_updated on packed-refs with the cache's
\* packfile_time, as reference_read calls it for packed_load: a file that
\* is absent is not found and the time is left alone; a file whose mtime
\* equals the time is not read; any other file is read and its mtime is
\* taken, before the caller parses it.
git_futils_readbuffer_updated(w) ==
  IF ~w.packed_refs.exists
  THEN [rc |-> ENOTFOUND, updated |-> FALSE, w |-> w]
  ELSE IF w.packfile_time = w.packed_refs.mtime
  THEN [rc |-> OK, updated |-> FALSE, w |-> w]
  ELSE [rc |-> OK, updated |-> TRUE,
        w |-> [w EXCEPT !.packfile_time = w.packed_refs.mtime]]

\* packed_load: the table is allocated, the file is read if it is new, the
\* table is cleared and filled from the lines; a line that does not parse
\* frees the table.
packed_load(w) ==
  LET loaded(w1, r) ==
        IF r.rc = OK
        THEN [rc |-> OK, w |-> [w1 EXCEPT !.packfile.tab = r.tab]]
        ELSE [rc |-> r.rc,
              w |-> [w1 EXCEPT !.packfile = [alloc |-> FALSE, tab |-> EmptyTab]]]
      reference_read(f, lines) ==
        IF f.rc = ENOTFOUND
        THEN [rc |-> OK, w |-> [f.w EXCEPT !.packfile.tab = EmptyTab]]
        ELSE IF ~f.updated
        THEN [rc |-> OK, w |-> f.w]
        ELSE loaded(f.w, packed_parse(lines, SkipComments(lines, 1), EmptyTab))
  IN reference_read(
          git_futils_readbuffer_updated(
            IF w.packfile.alloc THEN w
            ELSE [w EXCEPT !.packfile = [alloc |-> TRUE, tab |-> EmptyTab]]),
          w.packed_refs.lines)

\* The walk of packed_loadloose with an entry of the table kept when a
\* loose file has its name.
RECURSIVE dirent_loose_load_keep(_, _, _)
dirent_loose_load_keep(w, order, i) ==
  LET looked_up(r) ==
        IF r.rc # OK THEN [rc |-> r.rc, w |-> w]
        ELSE dirent_loose_load_keep(
               [w EXCEPT !.packfile.tab =
                  IF order[i] \in DOMAIN w.packfile.tab
                  THEN w.packfile.tab
                  ELSE TabInsert(w.packfile.tab, order[i],
                                 Packref(r.oid, 0, {GIT_PACKREF_WAS_LOOSE}))],
               order, i + 1)
  IN IF i > Len(order) THEN [rc |-> OK, w |-> w]
     ELSE looked_up(loose_lookup_to_packfile(w, order[i]))

\* packed_loadloose: every file under refs/ is parsed as a direct ref and
\* put in the table, flagged WAS_LOOSE; the walk stops at the first file
\* that does not parse.  `order` is the order the directory walk takes.
RECURSIVE dirent_loose_load(_, _, _)
dirent_loose_load(w, order, i) ==
  LET looked_up(r) ==
        IF r.rc # OK THEN [rc |-> r.rc, w |-> w]
        ELSE dirent_loose_load(
               [w EXCEPT !.packfile.tab =
                  TabInsert(w.packfile.tab, order[i],
                            Packref(r.oid, 0, {GIT_PACKREF_WAS_LOOSE}))],
               order, i + 1)
  IN IF i > Len(order) THEN [rc |-> OK, w |-> w]
     ELSE looked_up(loose_lookup_to_packfile(w, order[i]))

packed_loadloose(w, order) == dirent_loose_load(w, order, 1)

\* packed_sort with the comparison turned round.
RECURSIVE SortNames_descending(_)
SortNames_descending(S) ==
  LET first(m) == <<m>> \o SortNames_descending(S \ {m})
  IN IF S = {} THEN <<>>
     ELSE first(CHOOSE x \in S : \A y \in S \ {x} : StrLess(y, x))

\* packed_sort: the names in strcmp order.
RECURSIVE SortNames(_)
SortNames(S) ==
  LET first(m) == <<m>> \o SortNames(S \ {m})
  IN IF S = {} THEN <<>>
     ELSE first(CHOOSE x \in S : \A y \in S \ {x} : StrLess(x, y))

\* packed_find_peel: a ref under refs/tags/ without the HAS_PEEL flag whose
\* object is a tag gets that tag's target as its peel.
packed_find_peel(name, ref) ==
  IF GIT_PACKREF_HAS_PEEL \in ref.flags THEN [rc |-> OK, ref |-> ref]
  ELSE IF ~HasPrefix(name, GIT_REFS_TAGS_DIR) THEN [rc |-> OK, ref |-> ref]
  ELSE IF ~git_odb_exists(ref.oid) THEN [rc |-> EOBJCORRUPTED, ref |-> ref]
  ELSE IF Odb[ref.oid].type = "tag"
  THEN [rc |-> OK,
        ref |-> [ref EXCEPT !.peel = Odb[ref.oid].target,
                            !.flags = ref.flags \cup {GIT_PACKREF_HAS_PEEL}]]
  ELSE [rc |-> OK, ref |-> ref]

\* packed_write_ref
packed_write_ref(name, ref) ==
  IF GIT_PACKREF_HAS_PEEL \in ref.flags
  THEN <<RefLine(ref.oid, name), PeelLine(ref.peel)>>
  ELSE <<RefLine(ref.oid, name)>>

\* The loop of packed_write over the sorted list: peel, then write.
RECURSIVE packed_write_entries(_, _, _, _)
packed_write_entries(list, i, tab, out) ==
  LET peeled(r) ==
        IF r.rc # OK THEN [rc |-> EOBJCORRUPTED, tab |-> tab, out |-> out]
        ELSE packed_write_entries(list, i + 1, [tab EXCEPT ![list[i]] = r.ref],
                                  out \o packed_write_ref(list[i], r.ref))
  IN IF i > Len(list) THEN [rc |-> OK, tab |-> tab, out |-> out]
     ELSE peeled(packed_find_peel(list[i], tab[list[i]]))

\* One turn of the loop of packed_remove_loose with the file left there.
packed_remove_loose_entry_kept(w, name, error) == [rc |-> error, w |-> w]

\* One turn of the loop of packed_remove_loose, on the entry `name`: the
\* file of an entry flagged WAS_LOOSE is unlinked; a failure is kept.
packed_remove_loose_entry(w, name, error) ==
  LET unlinked(r) ==
        [rc |-> IF r.rc # OK /\ error = OK THEN EOSERR ELSE error, w |-> r.w]
  IN IF GIT_PACKREF_WAS_LOOSE \notin w.packfile.tab[name].flags
     THEN [rc |-> error, w |-> w]
     ELSE IF ~git_path_exists(w, name)
     THEN [rc |-> error, w |-> w]
     ELSE unlinked(p_unlink(w, name))

\* packed_remove_loose: the file of every entry flagged WAS_LOOSE is
\* unlinked; a failure is kept and the sweep goes on.
RECURSIVE packed_remove_loose(_, _, _, _)
packed_remove_loose(w, list, i, error) ==
  LET swept(r) == packed_remove_loose(r.w, list, i + 1, r.rc)
  IN IF i > Len(list) THEN [rc |-> error, w |-> w]
     ELSE swept(packed_remove_loose_entry(w, list[i], error))

\* packed_write: the table, sorted, is written after the header and
\* committed; then the loose files are removed and the time is taken.
packed_write(w) ==
  LET removed(d, mtime) ==
        [rc |-> d.rc, w |-> [d.w EXCEPT !.packfile_time = mtime]]
      committed(list, w2) ==
        removed(packed_remove_loose(w2, list, 1, OK), w2.packed_refs.mtime)
      written(list, r) ==
        IF r.rc # OK THEN [rc |-> r.rc, w |-> [w EXCEPT !.packfile.tab = r.tab]]
        ELSE committed(list,
               [w EXCEPT !.packfile.tab = r.tab,
                         !.packed_refs =
                           [exists |-> TRUE, lines |-> r.out, mtime |-> w.clock + 1],
                         !.clock = w.clock + 1])
      sorted(list) ==
        written(list, packed_write_entries(list, 1, w.packfile.tab, <<CommentLine>>))
  IN sorted(SortNames(DOMAIN w.packfile.tab))

\* -------------------------------------------------------- reference API
\* repo->path_repository, and git_buf_joinpath of it and a ref name.
path_repository == <<"/", "g", "/">>
git_buf_joinpath(a, b) == a \o b

\* The path of the filesystem model for a path under the repository.
RelPath(full) == FsPath(SubSeq(full, Len(path_repository) + 1, Len(full)))

\* packed_lookup on a handle without the PACKED flag.
packed_lookup(w, ref) ==
  LET loaded(l) ==
        IF l.rc # OK THEN [rc |-> l.rc, w |-> l.w, ref |-> ref]
        ELSE IF ref.name \notin DOMAIN l.w.packfile.tab
        THEN [rc |-> ENOTFOUND, w |-> l.w, ref |-> [ref EXCEPT !.symbolic = <<>>]]
        ELSE [rc |-> OK, w |-> l.w,
              ref |-> [ref EXCEPT !.flags = {"OID", "PACKED"}, !.symbolic = <<>>,
                                  !.oid = l.w.packfile.tab[ref.name].oid]]
  IN loaded(packed_load(w))

\* reference_lookup with the two stores asked in the other order.
reference_lookup_packed_first(w, ref) ==
  LET packed(l) ==
        IF l.rc # ENOTFOUND THEN l
        ELSE (LET loose(x) == [rc |-> x.rc, w |-> l.w, ref |-> x.ref]
              IN loose(loose_lookup(l.w, ref)))
  IN packed(packed_lookup(w, ref))

\* reference_lookup: the loose store, then the packed store.
reference_lookup(w, ref) ==
  LET loose(l) ==
        IF l.rc # ENOTFOUND THEN [rc |-> l.rc, w |-> w, ref |-> l.ref]
        ELSE packed_lookup(w, ref)
  IN loose(loose_lookup(w, ref))

git_reference_lookup(w, name) ==
  LET normalized(n) ==
        IF n.rc # OK THEN [rc |-> n.rc, w |-> w, ref |-> NewRef(<<>>)]
        ELSE reference_lookup(w, NewRef(n.name))
  IN normalized(Normalize(name, FALSE))

\* reference_exists: a file at the path, or the joined path as a key of the
\* table.
reference_exists(w, ref_name) ==
  LET loaded(l, ref_path) ==
        IF l.rc # OK THEN [rc |-> l.rc, w |-> l.w, exists |-> FALSE]
        ELSE [rc |-> OK, w |-> l.w,
              exists |-> \/ git_path_isfile(l.w, RelPath(ref_path))
                         \/ ref_path \in DOMAIN l.w.packfile.tab]
  IN loaded(packed_load(w), git_buf_joinpath(path_repository, ref_name))

\* git_reference_set_oid with a packed ref written back to packed-refs.
git_reference_set_oid_repacked(w, ref, id) ==
  LET written(r, x) == [rc |-> x.rc, w |-> x.w, ref |-> r]
      updated(r) ==
        IF "PACKED" \in r.flags /\ r.name \in DOMAIN w.packfile.tab
        THEN written(r, packed_write([w EXCEPT !.packfile.tab[r.name].oid = id]))
        ELSE written(r, loose_write(w, r))
  IN IF "OID" \notin ref.flags THEN [rc |-> EWRONGTYPE, w |-> w, ref |-> ref]
     ELSE IF ~git_odb_exists(id) THEN [rc |-> EINVTARGET, w |-> w, ref |-> ref]
     ELSE updated([ref EXCEPT !.oid = id])

\* git_reference_set_oid without the test that the object exists.
git_reference_set_oid_unchecked(w, ref, id) ==
  LET written(r, x) == [rc |-> x.rc, w |-> x.w, ref |-> r]
      updated(r) == written(r, loose_write(w, r))
  IN IF "OID" \notin ref.flags THEN [rc |-> EWRONGTYPE, w |-> w, ref |-> ref]
     ELSE updated([ref EXCEPT !.oid = id])

\* git_reference_set_oid
git_reference_set_oid(w, ref, id) ==
  LET written(r, x) == [rc |-> x.rc, w |-> x.w, ref |-> r]
      updated(r) == written(r, loose_write(w, r))
  IN IF "OID" \notin ref.flags THEN [rc |-> EWRONGTYPE, w |-> w, ref |-> ref]
     ELSE IF ~git_odb_exists(id) THEN [rc |-> EINVTARGET, w |-> w, ref |-> ref]
     ELSE updated([ref EXCEPT !.oid = id])

\* git_reference_set_target
git_reference_set_target(w, ref, target) ==
  LET written(r, x) == [rc |-> x.rc, w |-> x.w, ref |-> r]
      updated(r) == written(r, loose_write(w, r))
      normalized(n) ==
        IF n.rc # OK THEN [rc |-> n.rc, w |-> w, ref |-> ref]
        ELSE updated([ref EXCEPT !.symbolic = n.name])
  IN IF "SYMBOLIC" \notin ref.flags THEN [rc |-> EWRONGTYPE, w |-> w, ref |-> ref]
     ELSE normalized(Normalize(target, FALSE))

\* git_reference_create_symbolic
git_reference_create_symbolic(w, name, target, force) ==
  LET checked(n, e) ==
        IF e.rc # OK THEN [rc |-> e.rc, w |-> e.w, ref |-> NewRef(<<>>)]
        ELSE IF e.exists /\ ~force
        THEN [rc |-> EEXISTS, w |-> e.w, ref |-> NewRef(<<>>)]
        ELSE git_reference_set_target(
               e.w, [NewRef(n.name) EXCEPT !.flags = {"SYMBOLIC"}], target)
      normalized(n) ==
        IF n.rc # OK THEN [rc |-> n.rc, w |-> w, ref |-> NewRef(<<>>)]
        ELSE checked(n, reference_exists(w, n.name))
  IN normalized(Normalize(name, FALSE))

\* git_reference_create_oid: the handle is allocated with the name as given.
git_reference_create_oid(w, name, id, force) ==
  LET checked(e) ==
        IF e.rc # OK THEN [rc |-> e.rc, w |-> e.w, ref |-> NewRef(<<>>)]
        ELSE IF e.exists /\ ~force
        THEN [rc |-> EEXISTS, w |-> e.w, ref |-> NewRef(<<>>)]
        ELSE git_reference_set_oid(
               e.w, [NewRef(name) EXCEPT !.flags = {"OID"}], id)
      normalized(n) ==
        IF n.rc # OK THEN [rc |-> n.rc, w |-> w, ref |-> NewRef(<<>>)]
        ELSE checked(reference_exists(w, n.name))
  IN normalized(Normalize(name, TRUE))

\* git_reference_set_oid and git_reference_create_oid down to the
\* git_filebuf_open of loose_write: `ref` is the handle that is written.
git_reference_set_oid_open(w, ref, id) ==
  LET opened(r, x) == [rc |-> x.rc, w |-> x.w, ref |-> r]
      updated(r) == opened(r, loose_write_open(w, r))
  IN IF "OID" \notin ref.flags THEN [rc |-> EWRONGTYPE, w |-> w, ref |-> ref]
     ELSE IF ~git_odb_exists(id) THEN [rc |-> EINVTARGET, w |-> w, ref |-> ref]
     ELSE updated([ref EXCEPT !.oid = id])

git_reference_create_oid_open(w, name, id, force) ==
  LET checked(e) ==
        IF e.rc # OK THEN [rc |-> e.rc, w |-> e.w, ref |-> NewRef(<<>>)]
        ELSE IF e.exists /\ ~force
        THEN [rc |-> EEXISTS, w |-> e.w, ref |-> NewRef(<<>>)]
        ELSE git_reference_set_oid_open(
               e.w, [NewRef(name) EXCEPT !.flags = {"OID"}], id)
      normalized(n) ==
        IF n.rc # OK THEN [rc |-> n.rc, w |-> w, ref |-> NewRef(<<>>)]
        ELSE checked(reference_exists(w, n.name))
  IN normalized(Normalize(name, TRUE))

\* The packed branch of reference_delete.
reference_delete_packed(w, ref) ==
  LET loaded(l) ==
        IF l.rc # OK THEN [rc |-> l.rc, w |-> l.w]
        ELSE IF ref.name \notin DOMAIN l.w.packfile.tab
        THEN [rc |-> ESTOPPED, w |-> l.w]
        ELSE packed_write(
               [l.w EXCEPT !.packfile.tab = TabRemove(l.w.packfile.tab, ref.name)])
  IN loaded(packed_load(w))

\* reference_delete without the second lookup: a loose handle is unlinked
\* and that is all.
reference_delete_loose_only(w, ref) ==
  LET unlinked(u) ==
        IF u.rc # OK THEN [rc |-> EOSERR, w |-> w]
        ELSE [rc |-> OK, w |-> u.w]
  IN IF "PACKED" \in ref.flags THEN reference_delete_packed(w, ref)
     ELSE unlinked(p_unlink(w, FsPath(ref.name)))

\* reference_delete: a packed handle is taken out of packed-refs; a loose
\* one is unlinked and then, if the name still looks up, that is the
\* packed ref of the same name and it is deleted too.
RECURSIVE reference_delete(_, _)
reference_delete(w, ref) ==
  LET looked_up(l) ==
        IF l.rc = OK
        THEN reference_delete(l.w, l.ref)
        ELSE [rc |-> OK, w |-> l.w]
      unlinked(u) ==
        IF u.rc # OK THEN [rc |-> EOSERR, w |-> w]
        ELSE looked_up(git_reference_lookup(u.w, ref.name))
  IN IF "PACKED" \in ref.flags THEN reference_delete_packed(w, ref)
     ELSE unlinked(p_unlink(w, FsPath(ref.name)))

git_reference_delete(w, ref) == reference_delete(w, ref)

\* _reference_available_cb: -1 when `ref`, another name than old_ref, and
\* new_ref agree on the length of the shorter and the longer goes on with
\* a '/'.
reference_available_cb(new_ref, old_ref, ref) ==
  IF old_ref # ref
  THEN LET reflen == Len(ref)
           newlen == Len(new_ref)
           cmplen == IF reflen < newlen THEN reflen ELSE newlen
           lead == IF reflen < newlen THEN new_ref ELSE ref
       IN IF /\ SubSeq(new_ref, 1, cmplen) = SubSeq(ref, 1, cmplen)
             /\ Len(lead) > cmplen
             /\ lead[cmplen + 1] = "/"
          THEN -1
          ELSE 0
  ELSE 0

\* git_reference_foreach with LISTALL offers the callback the keys of the
\* table first, then the files under refs/ that are no key of it.
foreach_packed(w) == DOMAIN w.packfile.tab
foreach_loose(w) == LooseUnderRefs(w) \ DOMAIN w.packfile.tab

\* reference_available: a -1 of the callback on a key of the table ends
\* git_reference_foreach with 0 and `available` cleared; a -1 on a loose
\* file comes back through the directory walk as the result of
\* git_reference_foreach, and reference_available fails.
reference_available(w, ref, old_ref) ==
  LET loaded(l) ==
        IF l.rc # OK THEN [rc |-> ERROR, w |-> l.w, available |-> FALSE]
        ELSE IF \E e \in foreach_packed(l.w) :
                  reference_available_cb(ref, old_ref, e) < 0
        THEN [rc |-> OK, w |-> l.w, available |-> FALSE]
        ELSE IF \E e \in foreach_loose(l.w) :
                  reference_available_cb(ref, old_ref, e) < 0
        THEN [rc |-> ERROR, w |-> l.w, available |-> FALSE]
        ELSE [rc |-> OK, w |-> l.w, available |-> TRUE]
  IN loaded(packed_load(w))

\* The rollback exit of git_reference_rename: the old ref is created again,
\* a failure of that ignored.
rename_rollback(w, ref) ==
  LET created(c) ==
        [rc |-> ERROR, w |-> c.w,
         ref |-> [ref EXCEPT !.flags = ref.flags \ {"PACKED"}]]
  IN created(IF "SYMBOLIC" \in ref.flags
             THEN git_reference_create_symbolic(w, ref.name, ref.symbolic, FALSE)
             ELSE git_reference_create_oid(w, ref.name, ref.oid, FALSE))

\* The end of git_reference_rename, after the new ref is there: HEAD is
\* looked up and, if it targets the old name, written again.
rename_update_head(w, ref, new_name) ==
  LET updated(c) ==
        IF c.rc # OK THEN [rc |-> EHEADUPDATE, w |-> c.w, ref |-> ref]
        ELSE [rc |-> OK, w |-> c.w,
              ref |-> [ref EXCEPT !.name = new_name,
                                  !.flags = ref.flags \ {"PACKED"}]]
      looked_up(head) ==
        IF head.rc # OK THEN [rc |-> EHEADUPDATE, w |-> head.w, ref |-> ref]
        ELSE updated(
               IF "SYMBOLIC" \in head.ref.flags /\ head.ref.symbolic = ref.name
               THEN git_reference_create_symbolic(head.w, GIT_HEAD_FILE, new_name, TRUE)
               ELSE [rc |-> OK, w |-> head.w, ref |-> head.ref])
  IN looked_up(git_reference_lookup(w, GIT_HEAD_FILE))

\* git_reference_rename (the repositories of the model hold no reflog).
git_reference_rename(w, ref, name, force) ==
  LET created(c, new_name) ==
        IF c.rc # OK THEN rename_rollback(c.w, ref)
        ELSE rename_update_head(c.w, ref, new_name)
      cleared(rm, new_name) ==
        IF rm.rc # OK THEN rename_rollback(rm.w, ref)
        ELSE created(
               IF "SYMBOLIC" \in ref.flags
               THEN git_reference_create_symbolic(rm.w, new_name, ref.symbolic, force)
               ELSE git_reference_create_oid(rm.w, new_name, ref.oid, force),
               new_name)
      deleted(d, new_name, aux_path) ==
        IF d.rc # OK THEN [rc |-> d.rc, w |-> d.w, ref |-> ref]
        ELSE IF git_path_exists(d.w, aux_path) /\ ~git_path_isdir(d.w, aux_path)
        THEN rename_rollback(d.w, ref)
        ELSE cleared(IF git_path_isdir(d.w, aux_path)
                     THEN git_futils_rmdir_r(d.w, aux_path)
                     ELSE [rc |-> OK, w |-> d.w],
                     new_name)
      checked(a, new_name) ==
        IF a.rc # OK THEN [rc |-> a.rc, w |-> a.w, ref |-> ref]
        ELSE IF ~force /\ ~a.available THEN [rc |-> EEXISTS, w |-> a.w, ref |-> ref]
        ELSE deleted(reference_delete(a.w, ref), new_name, FsPath(new_name))
      normalized(n) ==
        IF n.rc # OK THEN [rc |-> n.rc, w |-> w, ref |-> ref]
        ELSE checked(reference_available(w, n.name, ref.name), n.name)
  IN normalized(Normalize(name, "OID" \in ref.flags))

\* The loop of git_reference_resolve with one more turn.
RECURSIVE resolve_loop_one_more(_, _, _)
resolve_loop_one_more(w, ref, i) ==
  LET looked_up(l) ==
        IF l.rc # OK
        THEN [rc |-> l.rc, w |-> l.w, ref |-> NewRef(<<>>), n |-> i + 1]
        ELSE IF "OID" \in l.ref.flags
        THEN [rc |-> OK, w |-> l.w, ref |-> l.ref, n |-> i + 1]
        ELSE resolve_loop_one_more(l.w, l.ref, i + 1)
  IN IF ~(i <= MAX_NESTING_LEVEL)
     THEN [rc |-> ETOONESTED, w |-> w, ref |-> NewRef(<<>>), n |-> i]
     ELSE looked_up(git_reference_lookup(w, ref.symbolic))

\* git_reference_resolve: `n` counts the lookups made.
RECURSIVE resolve_loop(_, _, _)
resolve_loop(w, ref, i) ==
  LET looked_up(l) ==
        IF l.rc # OK
        THEN [rc |-> l.rc, w |-> l.w, ref |-> NewRef(<<>>), n |-> i + 1]
        ELSE IF "OID" \in l.ref.flags
        THEN [rc |-> OK, w |-> l.w, ref |-> l.ref, n |-> i + 1]
        ELSE resolve_loop(l.w, l.ref, i + 1)
  IN IF ~(i < MAX_NESTING_LEVEL)
     THEN [rc |-> ETOONESTED, w |-> w, ref |-> NewRef(<<>>), n |-> i]
     ELSE looked_up(git_reference_lookup(w, ref.symbolic))

git_reference_resolve(w, ref) ==
  LET looked_up(l) == [rc |-> l.rc, w |-> l.w, ref |-> l.ref, n |-> 1]
  IN IF "OID" \in ref.flags
     THEN looked_up(git_reference_lookup(w, ref.name))
     ELSE resolve_loop(w, ref, 0)

\* git_reference_packall
git_reference_packall(w, order) ==
  LET loose_loaded(f) == IF f.rc # OK THEN f ELSE packed_write(f.w)
      loaded(l) ==
        IF l.rc # OK THEN l ELSE loose_loaded(packed_loadloose(l.w, order))
  IN loaded(packed_load(w))

\* The list flags of git_reference_foreach (types.h): GIT_REF_OID,
\* GIT_REF_SYMBOLIC and GIT_REF_PACKED are bits, GIT_REF_LISTALL is all three.
GIT_REF_LISTALL == {"OID", "SYMBOLIC", "PACKED"}

\* loose_guess_rtype: GIT_REF_INVALID (no bit) for a file that cannot be
\* read.
loose_guess_rtype(w, p) ==
  IF ~git_path_isfile(w, p) THEN {}
  ELSE IF w.files[p] # <<>> /\ w.files[p][1] = SymrefTok THEN {"SYMBOLIC"}
  ELSE {"OID"}

\* The callback of a foreach: it returns a negative value on the names of
\* `neg` and 0 on any other.
callback(neg, ref_name) == IF ref_name \in neg THEN -1 ELSE 0

\* The names of S in the order of `order`.
InOrder(order, S) == SelectSeq(order, LAMBDA x : x \in S)

\* _dirent_loose_listall with no test for a name of the packfile.
dirent_loose_listall_twice(w, list_flags, neg, file_path) ==
  IF /\ list_flags # GIT_REF_LISTALL
     /\ list_flags \cap loose_guess_rtype(w, file_path) = {}
  THEN [rc |-> 0, called |-> <<>>]
  ELSE [rc |-> callback(neg, file_path), called |-> <<file_path>>]

\* _dirent_loose_listall on a file: what it returns and the call of the
\* callback it makes, if any.
dirent_loose_listall(w, list_flags, neg, file_path) ==
  IF "PACKED" \in list_flags /\ file_path \in DOMAIN w.packfile.tab
  THEN [rc |-> 0, called |-> <<>>]
  ELSE IF /\ list_flags # GIT_REF_LISTALL
          /\ list_flags \cap loose_guess_rtype(w, file_path) = {}
  THEN [rc |-> 0, called |-> <<>>]
  ELSE [rc |-> callback(neg, file_path), called |-> <<file_path>>]

\* git_path_direach from refs/ with _dirent_loose_listall over the files
\* `list`: the walk ends at the first negative result and returns it.
RECURSIVE foreach_loose_walk(_, _, _, _, _, _)
foreach_loose_walk(w, list_flags, neg, list, i, calls) ==
  LET listed(r) ==
        IF r.rc < 0 THEN [rc |-> ERROR, w |-> w, calls |-> calls \o r.called]
        ELSE foreach_loose_walk(w, list_flags, neg, list, i + 1, calls \o r.called)
  IN IF i > Len(list) THEN [rc |-> OK, w |-> w, calls |-> calls]
     ELSE listed(dirent_loose_listall(w, list_flags, neg, list[i]))

\* GIT_HASHTABLE_FOREACH over the keys `list` of the packfile: `stop` when
\* the callback returned a negative value.
RECURSIVE foreach_packed_walk(_, _, _, _)
foreach_packed_walk(neg, list, i, calls) ==
  IF i > Len(list) THEN [stop |-> FALSE, calls |-> calls]
  ELSE IF callback(neg, list[i]) < 0
  THEN [stop |-> TRUE, calls |-> Append(calls, list[i])]
  ELSE foreach_packed_walk(neg, list, i + 1, Append(calls, list[i]))

\* git_reference_foreach that leaves the loop over the packfile at a
\* negative result and goes on to the loose refs.
git_reference_foreach_break(w, list_flags, neg, hash_order, dir_order) ==
  LET loose(w1, calls) ==
        foreach_loose_walk(w1, list_flags, neg,
                           InOrder(dir_order, LooseUnderRefs(w1)), 1, calls)
      packed(l, p) == loose(l.w, p.calls)
      loaded(l) ==
        IF l.rc # OK THEN [rc |-> ERROR, w |-> l.w, calls |-> <<>>]
        ELSE packed(l, foreach_packed_walk(
                         neg, InOrder(hash_order, DOMAIN l.w.packfile.tab), 1, <<>>))
  IN IF "PACKED" \in list_flags THEN loaded(packed_load(w))
     ELSE loose(w, <<>>)

\* git_reference_foreach: `hash_order` and `dir_order` are the orders the
\* hashtable and the directory walk take over the names; `calls` is the
\* sequence of names the callback was called with.
git_reference_foreach(w, list_flags, neg, hash_order, dir_order) ==
  LET loose(w1, calls) ==
        foreach_loose_walk(w1, list_flags, neg,
                           InOrder(dir_order, LooseUnderRefs(w1)), 1, calls)
      packed(l, p) ==
        IF p.stop THEN [rc |-> OK, w |-> l.w, calls |-> p.calls]
        ELSE loose(l.w, p.calls)
      loaded(l) ==
        IF l.rc # OK THEN [rc |-> ERROR, w |-> l.w, calls |-> <<>>]
        ELSE packed(l, foreach_packed_walk(
                         neg, InOrder(hash_order, DOMAIN l.w.packfile.tab), 1, <<>>))
  IN IF "PACKED" \in list_flags THEN loaded(packed_load(w))
     ELSE loose(w, <<>>)

\* git_reference_packall by the changes it makes to the disk, one at a
\* time: the lock file of packed-refs is made (git_filebuf_open without
\* FORCE, which fails on a lock file that is there), the lock file is
\* committed over packed-refs, and the loose files are unlinked one by one.
GIT_PACKEDREFS_LOCK ==
  <<"p", "a", "c", "k", "e", "d", "-", "r", "e", "f", "s">> \o GIT_FILELOCK_EXTENSION

\* git_filebuf_cleanup, and the end of a commit: the lock file is gone.
filebuf_unlock(w, lock) ==
  [w EXCEPT !.files = [q \in DOMAIN w.files \ {lock} |-> w.files[q]]]

\* The opening of pack_all without packed_loadloose: the packing list is
\* what packed-refs holds.
packall_open_packed_only(w, order) ==
  LET opened(w1, list) ==
        IF git_path_exists(w1, GIT_PACKEDREFS_LOCK)
        THEN [rc |-> EOSERR, w |-> w1, list |-> list]
        ELSE [rc |-> OK,
              w |-> [w1 EXCEPT !.files =
                       [q \in DOMAIN w1.files \cup {GIT_PACKEDREFS_LOCK} |->
                          IF q = GIT_PACKEDREFS_LOCK THEN <<>> ELSE w1.files[q]]],
              list |-> list]
      loaded(l) ==
        IF l.rc # OK THEN [rc |-> l.rc, w |-> l.w, list |-> <<>>]
        ELSE opened(l.w, SortNames(DOMAIN l.w.packfile.tab))
  IN loaded(packed_load(w))

\* packed_load, packed_loadloose and packed_write down to git_filebuf_open:
\* `list` is the sorted packing list.
packall_open(w, order) ==
  LET opened(w1, list) ==
        IF git_path_exists(w1, GIT_PACKEDREFS_LOCK)
        THEN [rc |-> EOSERR, w |-> w1, list |-> list]
        ELSE [rc |-> OK,
              w |-> [w1 EXCEPT !.files =
                       [q \in DOMAIN w1.files \cup {GIT_PACKEDREFS_LOCK} |->
                          IF q = GIT_PACKEDREFS_LOCK THEN <<>> ELSE w1.files[q]]],
              list |-> list]
      loose_loaded(f) ==
        IF f.rc # OK THEN [rc |-> f.rc, w |-> f.w, list |-> <<>>]
        ELSE opened(f.w, SortNames(DOMAIN f.w.packfile.tab))
      loaded(l) ==
        IF l.rc # OK THEN [rc |-> l.rc, w |-> l.w, list |-> <<>>]
        ELSE loose_loaded(packed_loadloose(l.w, order))
  IN loaded(packed_load(w))

\* packed_write with a commit that is taken to have worked whatever
\* git_filebuf_commit returned.
packed_write_commit_unchecked(w, list, commit_ok) ==
  LET written(r) ==
        IF r.rc # OK
        THEN [rc |-> r.rc,
              w |-> filebuf_unlock([w EXCEPT !.packfile.tab = r.tab],
                                   GIT_PACKEDREFS_LOCK)]
        ELSE IF ~commit_ok
        THEN [rc |-> OK,
              w |-> filebuf_unlock([w EXCEPT !.packfile.tab = r.tab],
                                   GIT_PACKEDREFS_LOCK)]
        ELSE [rc |-> OK,
              w |-> filebuf_unlock(
                      [w EXCEPT !.packfile.tab = r.tab,
                                !.packed_refs =
                                  [exists |-> TRUE, lines |-> r.out,
                                   mtime |-> w.clock + 1],
                                !.clock = w.clock + 1],
                      GIT_PACKEDREFS_LOCK)]
  IN written(packed_write_entries(list, 1, w.packfile.tab, <<CommentLine>>))

\* packed_write from the header to git_filebuf_commit: the entries are
\* peeled and written to the lock file; a failure removes the lock file and
\* leaves packed-refs alone; `commit_ok` is whether the commit works.
packed_write_commit(w, list, commit_ok) ==
  LET written(r) ==
        IF r.rc # OK
        THEN [rc |-> r.rc,
              w |-> filebuf_unlock([w EXCEPT !.packfile.tab = r.tab],
                                   GIT_PACKEDREFS_LOCK)]
        ELSE IF ~commit_ok
        THEN [rc |-> EOSERR,
              w |-> filebuf_unlock([w EXCEPT !.packfile.tab = r.tab],
                                   GIT_PACKEDREFS_LOCK)]
        ELSE [rc |-> OK,
              w |-> filebuf_unlock(
                      [w EXCEPT !.packfile.tab = r.tab,
                                !.packed_refs =
                                  [exists |-> TRUE, lines |-> r.out,
                                   mtime |-> w.clock + 1],
                                !.clock = w.clock + 1],
                      GIT_PACKEDREFS_LOCK)]
  IN written(packed_write_entries(list, 1, w.packfile.tab, <<CommentLine>>))

\* The end of packed_write: the time of packed-refs is taken.
packed_write_done(w) == [w EXCEPT !.packfile_time = w.packed_refs.mtime]

\* ------------------------------------------------------------ the state
\* The repository on disk and the cache of one process (the fields of a
\* world), the handle the caller holds, the last API call with its result,
\* the number of calls the session may still make, and the position of a
\* call that is taken step by step (see `Idle` below).
VARIABLES files, dirs, packed_refs, packfile, packfile_time, clock, h, last, budget, run

vars == <<files, dirs, packed_refs, packfile, packfile_time, clock, h, last, budget, run>>

World ==
  [files |-> files, dirs |-> dirs, packed_refs |-> packed_refs,
   packfile |-> packfile, packfile_time |-> packfile_time, clock |-> clock]

SetWorld(w) ==
  /\ files' = w.files
  /\ dirs' = w.dirs
  /\ packed_refs' = w.packed_refs
  /\ packfile' = w.packfile
  /\ packfile_time' = w.packfile_time
  /\ clock' = w.clock

\* The names and OIDs the calls are made with (see also RefNames).
RefsDirPath == <<"r", "e", "f", "s">>
LookupNames == RefNames \cup {GIT_HEAD_FILE}
RenameNames == RefNames \cup {HeadX}
SymNames == {GIT_HEAD_FILE, RefB}
SymTargets == {RefA}
NewOids == {2, 3}

NoHandle == [held |-> FALSE, ref |-> NewRef(<<>>)]
Held(ref) == [held |-> TRUE, ref |-> ref]

\* The record of a call: what was asked, what came back, and the world and
\* the handle as they were before it.
Call(op, name, arg, id, force, rc, ref, n) ==
  [op |-> op, name |-> name, arg |-> arg, oid |-> id, force |-> force,
   rc |-> rc, ref |-> ref, n |-> n, pre |-> [w |-> World, h |-> h]]

\* The position of a call that is taken step by step.  For a pack_all `pc`
\* is "idle" (no call is running), "write" (the lock file is open) or
\* "remove" (the commit is made and entry `i` of `list` is the next of the
\* sweep), `error` is the error of the sweep so far and `start` the world
\* the call began in.  `crashed` tells whether the process of an earlier
\* call died "before" or "after" its commit, and `at` is the world it died
\* in.  For a write of a loose ref `pc` is "opened" (the lock file is made)
\* or "printed" (the lock file holds the ref), `op` is the API call, `force`
\* its argument and `ref` the handle that is written.
NoWorld ==
  [files |-> <<>>, dirs |-> {},
   packed_refs |-> [exists |-> FALSE, lines |-> <<>>, mtime |-> 0],
   packfile |-> [alloc |-> FALSE, tab |-> EmptyTab],
   packfile_time |-> 0, clock |-> 0]

Idle ==
  [pc |-> "idle", list |-> <<>>, i |-> 0, error |-> OK, start |-> NoWorld,
   crashed |-> "no", at |-> NoWorld, op |-> "none", ref |-> NewRef(<<>>),
   force |-> FALSE]

\* A fresh process (no cache, no handle) on a disk with the loose files
\* `fs` and, if `packed`, a packed-refs file with the lines `lines`.
InitOn(fs, packed, lines, calls) ==
  /\ files = fs
  /\ dirs = {RefsDirPath} \cup UNION {Ancestors(p) : p \in DOMAIN fs}
  /\ packed_refs = IF packed
                   THEN [exists |-> TRUE, lines |-> lines, mtime |-> 1]
                   ELSE [exists |-> FALSE, lines |-> <<>>, mtime |-> 0]
  /\ packfile = [alloc |-> FALSE, tab |-> EmptyTab]
  /\ packfile_time = 0
  /\ clock = 1
  /\ h = NoHandle
  /\ last = [op |-> "none", name |-> <<>>, arg |-> <<>>, oid |-> 0,
             force |-> FALSE, rc |-> OK, ref |-> NewRef(<<>>), n |-> 0,
             pre |-> [w |-> World, h |-> NoHandle]]
  /\ budget = calls
  /\ run = Idle

\* The repositories a session starts in: the loose refs hold OID 1 and
\* packed-refs, if there is one, holds OID 2 for the names it lists; no
\* name is a directory of another ref; HEAD is absent or names refs/a.
NoConflict(S) == ~(RefA \in S /\ RefAB \in S)

PackedFileOf(S) ==
  LET list == SortNames(S) IN
  <<CommentLine>> \o [i \in 1..Len(list) |-> RefLine(2, list[i])]

InitFiles(L, head) ==
  [p \in L \cup (IF head THEN {GIT_HEAD_FILE} ELSE {}) |->
     IF p = GIT_HEAD_FILE THEN <<SymrefTok, StrTok(RefA), LF>>
     ELSE <<HexTok(1), LF>>]

InitRepo(Names, calls) ==
  \E L \in SUBSET Names, P \in SUBSET Names, head \in BOOLEAN, packed \in BOOLEAN :
    /\ NoConflict(L \cup P)
    /\ packed \/ P = {}
    /\ InitOn(InitFiles(L, head), packed, PackedFileOf(P), calls)

Init == InitRepo(RefNames, MaxOps)

\* -------------------------------------------------------------- actions
LookupOf(names) ==
  /\ budget > 0
  /\ \E name \in names :
       \E r \in {git_reference_lookup(World, name)} :
         /\ SetWorld(r.w)
         /\ h' = IF r.rc = OK THEN Held(r.ref) ELSE h
         /\ last' = Call("lookup", name, <<>>, 0, FALSE, r.rc, r.ref, 0)
         /\ budget' = budget - 1
         /\ UNCHANGED run

Lookup == LookupOf(LookupNames)

CreateOid ==
  /\ budget > 0
  /\ \E name \in RefNames, id \in NewOids, force \in BOOLEAN :
       \E r \in {git_reference_create_oid(World, name, id, force)} :
         /\ SetWorld(r.w)
         /\ h' = IF r.rc = OK THEN Held(r.ref) ELSE h
         /\ last' = Call("create_oid", name, <<>>, id, force, r.rc, r.ref, 0)
         /\ budget' = budget - 1
         /\ UNCHANGED run

CreateSymbolic ==
  /\ budget > 0
  /\ \E name \in SymNames, target \in SymTargets, force \in BOOLEAN :
       \E r \in {git_reference_create_symbolic(World, name, target, force)} :
         /\ SetWorld(r.w)
         /\ h' = IF r.rc = OK THEN Held(r.ref) ELSE h
         /\ last' = Call("create_symbolic", name, target, 0, force, r.rc, r.ref, 0)
         /\ budget' = budget - 1
         /\ UNCHANGED run

SetOid ==
  /\ budget > 0
  /\ h.held
  /\ \E id \in NewOids :
       \E r \in {git_reference_set_oid(World, h.ref, id)} :
         /\ SetWorld(r.w)
         /\ h' = Held(r.ref)
         /\ last' = Call("set_oid", h.ref.name, <<>>, id, FALSE, r.rc, r.ref, 0)
         /\ budget' = budget - 1
         /\ UNCHANGED run

SetTarget ==
  /\ budget > 0
  /\ h.held
  /\ \E target \in SymTargets :
       \E r \in {git_reference_set_target(World, h.ref, target)} :
         /\ SetWorld(r.w)
         /\ h' = Held(r.ref)
         /\ last' = Call("set_target", h.ref.name, target, 0, FALSE, r.rc, r.ref, 0)
         /\ budget' = budget - 1
         /\ UNCHANGED run

\* git_reference_delete frees the handle whatever the result.
Delete ==
  /\ budget > 0
  /\ h.held
  /\ \E r \in {git_reference_delete(World, h.ref)} :
       /\ SetWorld(r.w)
       /\ h' = NoHandle
       /\ last' = Call("delete", h.ref.name, <<>>, 0, FALSE, r.rc, h.ref, 0)
       /\ budget' = budget - 1
       /\ UNCHANGED run

Rename ==
  /\ budget > 0
  /\ h.held
  /\ \E name \in RenameNames, force \in BOOLEAN :
       \E r \in {git_reference_rename(World, h.ref, name, force)} :
         /\ SetWorld(r.w)
         /\ h' = Held(r.ref)
         /\ last' = Call("rename", h.ref.name, name, 0, force, r.rc, r.ref, 0)
         /\ budget' = budget - 1
         /\ UNCHANGED run

Resolve ==
  /\ budget > 0
  /\ h.held
  /\ \E r \in {git_reference_resolve(World, h.ref)} :
       /\ SetWorld(r.w)
       /\ h' = h
       /\ last' = Call("resolve", h.ref.name, <<>>, 0, FALSE, r.rc, r.ref, r.n)
       /\ budget' = budget - 1
       /\ UNCHANGED run

\* The orders a directory walk may take over the set S of files.
Orders(S) ==
  {o \in [1..Cardinality(S) -> S] : \A i, j \in 1..Cardinality(S) : o[i] = o[j] => i = j}

PackAll ==
  /\ budget > 0
  /\ \E order \in Orders(LooseUnderRefs(World)) :
       \E r \in {git_reference_packall(World, order)} :
         /\ SetWorld(r.w)
         /\ h' = h
         /\ last' = Call("packall", <<>>, <<>>, 0, FALSE, r.rc, NewRef(<<>>), 0)
         /\ budget' = budget - 1
         /\ UNCHANGED run

Next ==
  \/ Lookup
  \/ CreateOid
  \/ CreateSymbolic
  \/ SetOid
  \/ SetTarget
  \/ Delete
  \/ Rename
  \/ Resolve
  \/ PackAll

\* Sessions of MaxOps calls on any of the repositories above.
Spec == Init /\ [][Next]_vars

\* Sessions one call longer, on the repositories that hold no other ref
\* than refs/a.
InitDeep == InitRepo({RefA}, MaxOps + 1)

SpecDeep == InitDeep /\ [][Next]_vars

\* Sessions of lookups and resolves on a repository that holds a chain of
\* symbolic refs, refs/c -> refs/cc -> ..., of any length up to MaxChain;
\* the last of them names refs/a, which is a direct ref (loose or packed),
\* or refs/b, which does not exist, or a ref of the chain.
ChainName(i) == GIT_REFS_DIR \o [j \in 1..i |-> "c"]
ChainNames == {ChainName(i) : i \in 1..MaxChain}

ChainFiles(len, end, loose) ==
  [p \in {ChainName(i) : i \in 1..len} \cup (IF loose THEN {RefA} ELSE {}) |->
     IF p = RefA THEN <<HexTok(1), LF>>
     ELSE IF Len(p) = Len(ChainName(len)) THEN <<SymrefTok, StrTok(end), LF>>
     ELSE <<SymrefTok, StrTok(p \o <<"c">>), LF>>]

InitResolve ==
  \E len \in 1..MaxChain, loose \in BOOLEAN :
    \E end \in {RefA, RefB} \cup {ChainName(i) : i \in 1..len} :
      InitOn(ChainFiles(len, end, loose), ~loose, PackedFileOf({RefA}), MaxOps)

LookupChain == LookupOf(ChainNames \cup {RefA})

NextResolve ==
  \/ LookupChain
  \/ Resolve

SpecResolve == InitResolve /\ [][NextResolve]_vars

\* Sessions of create_symbolic and pack_all that end with a foreach, on
\* repositories with the refs refs/a, refs/b and refs/c, loose or packed.
\* The flags, the callback and the two orders are inputs of the foreach.
RefC == GIT_REFS_DIR \o <<"c">>
ForeachNames == {RefA, RefB, RefC}
ListFlags == {GIT_REF_LISTALL, {"PACKED"}, {"OID"}, {"SYMBOLIC", "PACKED"}}

InitForeach == InitRepo(ForeachNames, MaxOps)

Foreach ==
  /\ budget > 0
  /\ \E list_flags \in ListFlags, neg \in SUBSET ForeachNames :
       \E hash_order \in Orders(DOMAIN packed_load(World).w.packfile.tab),
          dir_order \in Orders(LooseUnderRefs(World)) :
         \E r \in {git_reference_foreach(World, list_flags, neg,
                                         hash_order, dir_order)} :
           /\ SetWorld(r.w)
           /\ h' = h
           /\ last' = [op |-> "foreach", name |-> <<>>, arg |-> <<>>, oid |-> 0,
                       force |-> FALSE, rc |-> r.rc, ref |-> NewRef(<<>>),
                       n |-> 0, pre |-> [w |-> World, h |-> h],
                       list_flags |-> list_flags, neg |-> neg,
                       calls |-> r.calls]
           /\ budget' = 0
           /\ UNCHANGED run

NextForeach ==
  \/ Foreach
  \/ CreateSymbolic
  \/ PackAll

SpecForeach == InitForeach /\ [][NextForeach]_vars

\* Sessions of pack_all taken step by step, on the repositories of Spec,
\* in which the process may die once, at any step, and a fresh process
\* goes on.
FreshProcess(w) ==
  [w EXCEPT !.packfile = [alloc |-> FALSE, tab |-> EmptyTab],
            !.packfile_time = 0]

\* The record of a pack_all that ends now with `rc`.
PackCall(rc, start) ==
  [Call("packall", <<>>, <<>>, 0, FALSE, rc, NewRef(<<>>), 0)
     EXCEPT !.pre.w = start]

PackOpen ==
  /\ budget > 0
  /\ run.pc = "idle"
  /\ \E order \in Orders(LooseUnderRefs(World)) :
       \E r \in {packall_open(World, order)} :
         /\ SetWorld(r.w)
         /\ h' = h
         /\ budget' = budget - 1
         /\ IF r.rc = OK
            THEN /\ run' = [run EXCEPT !.pc = "write", !.list = r.list,
                                       !.i = 0, !.error = OK, !.start = World]
                 /\ last' = last
            ELSE /\ run' = run
                 /\ last' = PackCall(r.rc, World)

PackCommit ==
  /\ run.pc = "write"
  /\ \E commit_ok \in BOOLEAN :
       \E r \in {packed_write_commit(World, run.list, commit_ok)} :
         /\ SetWorld(r.w)
         /\ UNCHANGED <<h, budget>>
         /\ IF r.rc = OK
            THEN /\ run' = [run EXCEPT !.pc = "remove", !.i = 1]
                 /\ last' = last
            ELSE /\ run' = [run EXCEPT !.pc = "idle", !.list = <<>>]
                 /\ last' = PackCall(r.rc, run.start)

PackRemove ==
  /\ run.pc = "remove"
  /\ run.i <= Len(run.list)
  /\ \E r \in {packed_remove_loose_entry(World, run.list[run.i], run.error)} :
       /\ SetWorld(r.w)
       /\ run' = [run EXCEPT !.i = run.i + 1, !.error = r.rc]
       /\ UNCHANGED <<h, last, budget>>

PackDone ==
  /\ run.pc = "remove"
  /\ run.i > Len(run.list)
  /\ SetWorld(packed_write_done(World))
  /\ run' = [run EXCEPT !.pc = "idle", !.list = <<>>, !.i = 0, !.error = OK]
  /\ last' = PackCall(run.error, run.start)
  /\ UNCHANGED <<h, budget>>

\* The process dies: the disk stays as it is, the cache and the handle are
\* gone.
Crash ==
  /\ run.pc # "idle"
  /\ run.crashed = "no"
  /\ SetWorld(FreshProcess(World))
  /\ h' = NoHandle
  /\ run' = [run EXCEPT !.pc = "idle", !.list = <<>>, !.i = 0, !.error = OK,
                        !.crashed = IF run.pc = "write" THEN "before" ELSE "after",
                        !.at = World]
  /\ last' = [PackCall(ERROR, run.start) EXCEPT !.op = "crash"]
  /\ UNCHANGED budget

NextPack ==
  \/ PackOpen
  \/ PackCommit
  \/ PackRemove
  \/ PackDone
  \/ Crash

SpecPack == Init /\ [][NextPack]_vars

\* Calls of normalize_name on names made of up to MaxParts pieces: a
\* letter, the characters the function looks for, and the words it knows.
NamePieces ==
  {<<"a">>, <<"/">>, <<".">>, <<"@">>, <<"{">>, <<" ">>,
   <<"~">>, <<"^">>, <<":">>, <<"\\">>, <<"?">>, <<"[">>, <<"*">>,
   GIT_FILELOCK_EXTENSION, GIT_REFS_DIR,
   GIT_HEAD_FILE, GIT_MERGE_HEAD_FILE, GIT_FETCH_HEAD_FILE}

RECURSIVE Flatten(_)
Flatten(parts) ==
  IF parts = <<>> THEN <<>> ELSE Head(parts) \o Flatten(Tail(parts))

NameInputs ==
  {Flatten(parts) : parts \in UNION {[1..n -> NamePieces] : n \in 0..MaxParts}}

\* The record of a call of normalize_name: `name` is the name given, `arg`
\* the name written to the buffer.
NormalizeCall(op, name, is_oid_ref, rc, out) ==
  [op |-> op, name |-> name, arg |-> out, oid |-> 0, force |-> FALSE,
   rc |-> rc, ref |-> NewRef(<<>>), n |-> 0,
   pre |-> [w |-> NoWorld, h |-> NoHandle], is_oid_ref |-> is_oid_ref]

InitNormalize ==
  /\ files = NoWorld.files
  /\ dirs = NoWorld.dirs
  /\ packed_refs = NoWorld.packed_refs
  /\ packfile = NoWorld.packfile
  /\ packfile_time = 0
  /\ clock = 0
  /\ h = NoHandle
  /\ budget = 1
  /\ run = Idle
  /\ \E name \in NameInputs, is_oid_ref \in BOOLEAN :
       last = NormalizeCall("input", name, is_oid_ref, OK, <<>>)

NormalizeName ==
  /\ budget > 0
  /\ last.op = "input"
  /\ \E r \in {normalize_name(GIT_REFNAME_MAX, last.name, last.is_oid_ref)} :
       last' = NormalizeCall("normalize", last.name, last.is_oid_ref, r.rc, r.name)
  /\ budget' = budget - 1
  /\ UNCHANGED <<files, dirs, packed_refs, packfile, packfile_time, clock, h, run>>

SpecNormalize == InitNormalize /\ [][NormalizeName]_vars

\* Sessions of a writing process whose set_oid and create_oid are taken
\* step by step, on the repositories of Spec, while a reading process, a
\* fresh one each time, looks names up between any two steps.
WriteOpened(op, name, id, force, r) ==
  /\ SetWorld(r.w)
  /\ budget' = budget - 1
  /\ IF r.rc = OK
     THEN /\ run' = [run EXCEPT !.pc = "opened", !.op = op, !.ref = r.ref,
                                !.force = force, !.start = World]
          /\ UNCHANGED <<h, last>>
     ELSE /\ run' = run
          /\ h' = h
          /\ last' = Call(op, name, <<>>, id, force, r.rc, r.ref, 0)

SetOidOpen ==
  /\ budget > 0
  /\ run.pc = "idle"
  /\ h.held
  /\ \E id \in NewOids :
       \E r \in {git_reference_set_oid_open(World, h.ref, id)} :
         WriteOpened("set_oid", h.ref.name, id, FALSE, r)

CreateOidOpen ==
  /\ budget > 0
  /\ run.pc = "idle"
  /\ \E name \in RefNames, id \in NewOids, force \in BOOLEAN :
       \E r \in {git_reference_create_oid_open(World, name, id, force)} :
         WriteOpened("create_oid", name, id, force, r)

\* The end of a write with the result `rc`: the caller holds the handle.
WriteEnds(rc) ==
  /\ run' = [run EXCEPT !.pc = "idle", !.op = "none", !.ref = NewRef(<<>>),
                        !.force = FALSE]
  /\ h' = IF rc = OK \/ run.op = "set_oid" THEN Held(run.ref) ELSE h
  /\ last' = [Call(run.op, run.ref.name, <<>>, run.ref.oid, run.force, rc,
                    run.ref, 0)
                EXCEPT !.pre.w = run.start]

WritePrintf ==
  /\ run.pc = "opened"
  /\ \E r \in {loose_write_printf(World, run.ref)} :
       /\ SetWorld(r.w)
       /\ IF r.rc = OK
          THEN run' = [run EXCEPT !.pc = "printed"] /\ UNCHANGED <<h, last>>
          ELSE WriteEnds(r.rc)
  /\ UNCHANGED budget

WriteCommit ==
  /\ run.pc = "printed"
  /\ \E r \in {loose_write_commit(World, run.ref)} :
       /\ SetWorld(r.w)
       /\ WriteEnds(r.rc)
  /\ UNCHANGED budget

\* git_reference_lookup by the writing process, between its writes.
LookupIdle == run.pc = "idle" /\ Lookup

\* git_reference_lookup by a fresh process: its cache is its own.
Read ==
  /\ \E name \in RefNames :
       \E r \in {git_reference_lookup(FreshProcess(World), name)} :
         last' = [Call("read", name, <<>>, 0, FALSE, r.rc, r.ref, 0)
                    EXCEPT !.pre.w = run.start]
  /\ UNCHANGED <<files, dirs, packed_refs, packfile, packfile_time, clock,
                 h, budget, run>>

NextRace ==
  \/ LookupIdle
  \/ SetOidOpen
  \/ CreateOidOpen
  \/ WritePrintf
  \/ WriteCommit
  \/ Read

SpecRace == Init /\ [][NextRace]_vars

\* Sessions two calls longer, of lookup, create_oid, delete and pack_all,
\* on the repositories that hold no other refs than refs/a and refs/b: long
\* enough for a pack_all, a write of one ref and the delete of the other.
InitSweep == InitRepo({RefA, RefB}, MaxOps + 2)

NextSweep ==
  \/ Lookup
  \/ CreateOid
  \/ Delete
  \/ PackAll

SpecSweep == InitSweep /\ [][NextSweep]_vars

\* Sessions of packed_load and pack_all by one process on a repository
\* whose packed-refs file is any header line followed by up to MaxLines
\* lines, well formed or not: a ref line of refs/a, a ref line of
\* refs/tags/v, a peel line.  refs/tags/v may be a loose ref of the tag
\* object 4 or of the tag of a tag 5, refs/a a loose ref of commit 1.
\* Another process may move packed-refs aside and move it back, which
\* keeps its content and its mtime (a file that is moved aside is kept in
\* packed_refs, with `exists` false).
TagV == GIT_REFS_TAGS_DIR \o <<"v">>

LineInputs == {RefLine(2, RefA), RefLine(4, TagV), PeelLine(1)}

PackedFiles ==
  {<<CommentLine>> \o body :
     body \in UNION {[1..n -> LineInputs] : n \in 0..MaxLines}}

LooseInputs ==
  {[p \in S |-> <<HexTok(IF p = RefA THEN 1 ELSE t), LF>>] :
     S \in SUBSET {RefA, TagV}, t \in {4, 5}}

InitLoad ==
  \E fs \in LooseInputs, packed \in BOOLEAN, lines \in PackedFiles :
    /\ packed \/ lines = <<CommentLine>>
    /\ InitOn(fs, packed, lines, MaxOps + 1)

Load ==
  /\ budget > 0
  /\ \E r \in {packed_load(World)} :
       /\ SetWorld(r.w)
       /\ h' = h
       /\ last' = Call("load", <<>>, <<>>, 0, FALSE, r.rc, NewRef(<<>>), 0)
       /\ budget' = budget - 1
       /\ UNCHANGED run

MoveAside ==
  /\ budget > 0
  /\ packed_refs.exists
  /\ packed_refs' = [packed_refs EXCEPT !.exists = FALSE]
  /\ last' = Call("aside", <<>>, <<>>, 0, FALSE, OK, NewRef(<<>>), 0)
  /\ budget' = budget - 1
  /\ UNCHANGED <<files, dirs, packfile, packfile_time, clock, h, run>>

MoveBack ==
  /\ budget > 0
  /\ ~packed_refs.exists
  /\ packed_refs.mtime # 0
  /\ packed_refs' = [packed_refs EXCEPT !.exists = TRUE]
  /\ last' = Call("back", <<>>, <<>>, 0, FALSE, OK, NewRef(<<>>), 0)
  /\ budget' = budget - 1
  /\ UNCHANGED <<files, dirs, packfile, packfile_time, clock, h, run>>

NextLoad ==
  \/ Load
  \/ PackAll
  \/ MoveAside
  \/ MoveBack

SpecLoad == InitLoad /\ [][NextLoad]_vars

\* Sessions of lookup, create_oid, create_symbolic and delete with names
\* that are given with runs of '/', refs//a and refs///b, or without, on
\* the repositories of refs/a and refs/b.
RawA == GIT_REFS_DIR \o <<"/", "a">>
RawB == GIT_REFS_DIR \o <<"/", "/", "b">>
RawNames == {RefA, RawA, RawB}

InitRaw == InitRepo({RefA, RefB}, MaxOps)

LookupRaw == LookupOf(RawNames)

CreateOidRaw ==
  /\ budget > 0
  /\ \E name \in RawNames, id \in NewOids, force \in BOOLEAN :
       \E r \in {git_reference_create_oid(World, name, id, force)} :
         /\ SetWorld(r.w)
         /\ h' = IF r.rc = OK THEN Held(r.ref) ELSE h
         /\ last' = Call("create_oid", name, <<>>, id, force, r.rc, r.ref, 0)
         /\ budget' = budget - 1
         /\ UNCHANGED run

CreateSymbolicRaw ==
  /\ budget > 0
  /\ \E name \in RawNames, target \in RawNames, force \in BOOLEAN :
       \E r \in {git_reference_create_symbolic(World, name, target, force)} :
         /\ SetWorld(r.w)
         /\ h' = IF r.rc = OK THEN Held(r.ref) ELSE h
         /\ last' = Call("create_symbolic", name, target, 0, force, r.rc, r.ref, 0)
         /\ budget' = budget - 1
         /\ UNCHANGED run

NextRaw ==
  \/ LookupRaw
  \/ CreateOidRaw
  \/ CreateSymbolicRaw
  \/ Delete

SpecRaw == InitRaw /\ [][NextRaw]_vars

\* Sessions of lookup and delete on repositories whose loose files of
\* refs/a and refs/b are absent, well-formed or unparseable, and whose
\* packed-refs file is absent, well-formed or unparseable.
CorruptLoose ==
  {<<HexTok(1)>>, <<HexTok(1), CR>>, <<StrTok(<<"x">>), LF>>,
   <<SymrefTok>>, <<SymrefTok, StrTok(RefB)>>}

CorruptPacked ==
  {<<CommentLine, JunkLine>>,
   <<CommentLine, RefLine(2, RefA), JunkLine>>,
   <<CommentLine, RefLine(2, RefA), PeelLine(1)>>}

InitCorrupt ==
  \E S \in SUBSET {RefA, RefB}, packed \in BOOLEAN :
    \E fs \in [S -> {<<HexTok(1), LF>>} \cup CorruptLoose],
       lines \in {PackedFileOf(P) : P \in SUBSET {RefA, RefB}} \cup CorruptPacked :
      /\ packed \/ lines = <<CommentLine>>
      /\ InitOn(fs, packed, lines, MaxOps)

LookupCorrupt == LookupOf({RefA, RefB})

NextCorrupt ==
  \/ LookupCorrupt
  \/ Delete

SpecCorrupt == InitCorrupt /\ [][NextCorrupt]_vars

\* Sessions of lookup, delete and pack_all on repositories of refs/a,
\* refs/b and refs/tags/v whose packed-refs file holds up to MaxLines lines
\* in any order, a name on several lines included.
WriteNames == {RefA, RefB, TagV}

WriteFiles ==
  {<<CommentLine>> \o body :
     body \in UNION {[1..n -> LineInputs \cup {RefLine(3, RefB)}] : n \in 0..MaxLines}}

InitWrite ==
  \E S \in SUBSET WriteNames, packed \in BOOLEAN, lines \in WriteFiles :
    /\ packed \/ lines = <<CommentLine>>
    /\ InitOn([p \in S |-> <<HexTok(IF p = TagV THEN 4 ELSE 1), LF>>],
              packed, lines, MaxOps)

LookupWrite == LookupOf(WriteNames)

NextWrite ==
  \/ LookupWrite
  \/ Delete
  \/ PackAll

SpecWrite == InitWrite /\ [][NextWrite]_vars

\* ------------------------------------------------ the terms of the claims
\* The world before the last call, and what a lookup made now, or made
\* before the last call, gives.
Pre == last.pre.w
Look(name) == git_reference_lookup(World, name)
LookPre(name) == git_reference_lookup(Pre, name)

\* What the disk of world w holds for a name: a loose file, a well-formed
\* direct one and its OID, an entry of packed-refs and its OID.
LooseAt(w, name) == FsPath(name) \in DOMAIN w.files

Oids == DOMAIN Odb \cup NewOids

WellFormedDirect(data) ==
  \E o \in Oids : data \in {<<HexTok(o), LF>>, <<HexTok(o), CR, LF>>}

LooseDirect(w, name) == LooseAt(w, name) /\ WellFormedDirect(w.files[FsPath(name)])

LooseOid(w, name) == w.files[FsPath(name)][1].oid

PackedEntries(w) ==
  IF w.packed_refs.exists
  THEN {i \in 1..Len(w.packed_refs.lines) : w.packed_refs.lines[i].k = "ref"}
  ELSE {}

PackedNames(w) == {w.packed_refs.lines[i].name : i \in PackedEntries(w)}

PackedOid(w, name) ==
  w.packed_refs.lines[CHOOSE i \in PackedEntries(w) :
                        w.packed_refs.lines[i].name = name].oid

RefExists(w, name) == LooseAt(w, name) \/ name \in PackedNames(w)

\* The last call left every ref on disk as it was.
DiskUnchanged == files = Pre.files /\ packed_refs = Pre.packed_refs

\* ---------------------------------------------------------------- claims
\* C1: a lookup of a name that has a well-formed direct loose file and an
\* entry of packed-refs with another OID succeeds and returns a direct handle
\* with the OID of the loose file and without the packed flag.
C1_LooseWins ==
  (/\ last.op = "lookup"
   /\ LooseDirect(Pre, last.name)
   /\ last.name \in PackedNames(Pre)
   /\ PackedOid(Pre, last.name) # LooseOid(Pre, last.name))
  => /\ last.rc = OK
     /\ last.ref.flags = {"OID"}
     /\ last.ref.oid = LooseOid(Pre, last.name)

C1_Witness ==
  /\ last.op = "lookup"
  /\ LooseDirect(Pre, last.name)
  /\ last.name \in PackedNames(Pre)
  /\ PackedOid(Pre, last.name) # LooseOid(Pre, last.name)
  /\ last.rc = OK

\* C2: deleting through a handle that is not packed, a ref that has a loose
\* file and an entry of packed-refs, succeeds and leaves neither the file
\* nor the entry; a lookup of the name is then not-found.
C2_DeleteRemovesBoth ==
  (/\ last.op = "delete"
   /\ "PACKED" \notin last.ref.flags
   /\ LooseAt(Pre, last.name)
   /\ last.name \in PackedNames(Pre))
  => /\ last.rc = OK
     /\ ~LooseAt(World, last.name)
     /\ last.name \notin PackedNames(World)
     /\ Look(last.name).rc = ENOTFOUND

C2_Witness ==
  /\ last.op = "delete"
  /\ "PACKED" \notin last.ref.flags
  /\ LooseAt(Pre, last.name)
  /\ last.name \in PackedNames(Pre)
  /\ last.rc = OK

\* C3: a create (direct or symbolic) without force of a name that exists,
\* as a loose file or as an entry of packed-refs only, returns
\* already-exists and changes nothing on disk.
C3_CreateExistingRefused ==
  (/\ last.op \in {"create_oid", "create_symbolic"}
   /\ ~last.force
   /\ RefExists(Pre, last.name))
  => /\ last.rc = EEXISTS
     /\ DiskUnchanged

\* C4: a create of a direct ref or a set of the OID with an OID that names
\* no object fails and changes neither the disk nor the target of the
\* handle; the failure is invalid-target unless the call is refused before
\* the object is looked for (a handle that is not direct, a name that is
\* not valid, a name that exists and no force).
C4_AbsentOidRefused ==
  (/\ last.op \in {"create_oid", "set_oid"}
   /\ ~git_odb_exists(last.oid))
  => /\ last.rc # OK
     /\ DiskUnchanged
     /\ dirs = Pre.dirs
     /\ h = last.pre.h
     /\ ((last.op = "set_oid" /\ "OID" \in last.pre.h.ref.flags)
         => last.rc = EINVTARGET)
     /\ ((/\ last.op = "create_oid"
          /\ Normalize(last.name, TRUE).rc = OK
          /\ (last.force \/ ~RefExists(Pre, last.name)))
         => last.rc = EINVTARGET)

C4_Witness ==
  /\ last.op \in {"create_oid", "set_oid"}
  /\ ~git_odb_exists(last.oid)
  /\ last.rc = EINVTARGET

\* What following the targets from the handle `ref` in world w meets: a
\* direct ref ("direct", with its OID) after `syms` symbolic refs, a name
\* that does not look up ("broken"), or more symbolic refs than `fuel`
\* ("more"), as in a cycle.
RECURSIVE ChainFrom(_, _, _)
ChainFrom(w, ref, fuel) ==
  LET counted(c) == [c EXCEPT !.syms = c.syms + 1]
      target(l) ==
        IF l.rc # OK THEN [end |-> "broken", syms |-> 1, oid |-> 0]
        ELSE counted(ChainFrom(w, l.ref, fuel - 1))
  IN IF "OID" \in ref.flags THEN [end |-> "direct", syms |-> 0, oid |-> ref.oid]
     ELSE IF fuel = 0 THEN [end |-> "more", syms |-> 0, oid |-> 0]
     ELSE target(git_reference_lookup(w, ref.symbolic))

ChainOfLast == ChainFrom(Pre, last.pre.h.ref, MaxChain + 1)

\* C5: a resolve of a symbolic handle whose chain holds at most
\* MAX_NESTING_LEVEL symbolic refs, the handle's included, before a direct
\* ref returns a direct handle with the OID of that ref; when the chain holds
\* more symbolic refs than that, or runs in a cycle, the resolve ends with
\* too-nested after at most MAX_NESTING_LEVEL lookups.
C5_ResolveBounded ==
  (last.op = "resolve" /\ "SYMBOLIC" \in last.pre.h.ref.flags)
  => /\ ((ChainOfLast.end = "direct" /\ ChainOfLast.syms <= MAX_NESTING_LEVEL)
         => (/\ last.rc = OK
             /\ "OID" \in last.ref.flags
             /\ "SYMBOLIC" \notin last.ref.flags
             /\ last.ref.oid = ChainOfLast.oid))
     /\ ((\/ ChainOfLast.end = "more"
          \/ (ChainOfLast.end = "direct" /\ ChainOfLast.syms > MAX_NESTING_LEVEL))
         => (/\ last.rc = ETOONESTED
             /\ last.n <= MAX_NESTING_LEVEL))

C5_Witness ==
  /\ last.op = "resolve"
  /\ "SYMBOLIC" \in last.pre.h.ref.flags
  /\ ChainOfLast.end = "direct"
  /\ ChainOfLast.syms = MAX_NESTING_LEVEL
  /\ last.rc = OK

\* The terms of a rename: the name the handle had, the normalized new name,
\* and whether a handle has the kind and the target of another.
OldName == last.name
NewName == Normalize(last.arg, "OID" \in last.pre.h.ref.flags).name

SameTarget(a, b) ==
  /\ ("OID" \in a.flags) = ("OID" \in b.flags)
  /\ ("SYMBOLIC" \in a.flags) = ("SYMBOLIC" \in b.flags)
  /\ ("OID" \in a.flags => a.oid = b.oid)
  /\ ("SYMBOLIC" \in a.flags => a.symbolic = b.symbolic)

HeadTargets(w, name) ==
  LET head(l) == l.rc = OK /\ "SYMBOLIC" \in l.ref.flags /\ l.ref.symbolic = name
  IN head(git_reference_lookup(w, GIT_HEAD_FILE))

LookedUpAs(w, name, ref) ==
  LET found(l) == l.rc = OK /\ SameTarget(l.ref, ref)
  IN found(git_reference_lookup(w, name))

\* C6: after a rename without force, to another name, of a ref HEAD names,
\* that succeeds, the old name looks up not-found, the new name looks up
\* with the kind and the target the handle had, the HEAD file names the new
\* name, and the handle has the new name and no packed flag.
C6_RenameMoves ==
  (/\ last.op = "rename"
   /\ ~last.force
   /\ last.rc = OK
   /\ NewName # OldName
   /\ HeadTargets(Pre, OldName))
  => /\ Look(OldName).rc = ENOTFOUND
     /\ LookedUpAs(World, NewName, last.pre.h.ref)
     /\ GIT_HEAD_FILE \in DOMAIN files
     /\ files[GIT_HEAD_FILE] = <<SymrefTok, StrTok(NewName), LF>>
     /\ h.ref.name = NewName
     /\ "PACKED" \notin h.ref.flags

\* The names of the refs of world w, and the relation of the rename check:
\* one name is the other followed by '/' and more.
ExistingNames(w) == DOMAIN w.files \cup PackedNames(w)
PathPrefix(a, b) == HasPrefix(b, a \o <<"/">>)

RenameIsValid ==
  /\ last.op = "rename"
  /\ Normalize(last.arg, "OID" \in last.pre.h.ref.flags).rc = OK

\* C7: a rename without force returns already-exists and changes no ref
\* when a ref other than the handle's, loose or packed, is a path prefix of
\* the new name or has the new name as a path prefix.
C7_RenamePrefixConflict ==
  (/\ RenameIsValid
   /\ ~last.force
   /\ \E E \in ExistingNames(Pre) \ {OldName} :
        PathPrefix(E, NewName) \/ PathPrefix(NewName, E))
  => /\ last.rc = EEXISTS
     /\ DiskUnchanged

\* C8: a rename without force onto the name of another existing ref, loose
\* or packed, returns already-exists and leaves both refs as they were.
C8_RenameOntoExisting ==
  (/\ RenameIsValid
   /\ ~last.force
   /\ NewName # OldName
   /\ RefExists(Pre, NewName))
  => /\ last.rc = EEXISTS
     /\ DiskUnchanged

\* C9: when a rename of a ref that looked up as the handle says returns an
\* error, the old name still looks up with the kind and the target of the
\* handle: an error before the old ref is removed changes nothing, an error
\* after it restores the ref.
C9_RenameRestores ==
  (/\ last.op = "rename"
   /\ last.rc # OK
   /\ LookedUpAs(Pre, OldName, last.pre.h.ref))
  => LookedUpAs(World, OldName, last.pre.h.ref)

\* C10: after a pack_all that succeeds on a repository whose loose files
\* under refs/ are all well-formed direct refs, packed-refs lists every
\* name that was loose or packed, none of them has a loose file, and each
\* looks up with the OID it looked up with before (the loose OID where there
\* was a loose file) and with the packed flag.
PackedAs(name) ==
  LET same(now, before) ==
        /\ now.rc = OK
        /\ "PACKED" \in now.ref.flags
        /\ "OID" \in now.ref.flags
        /\ before.rc = OK
        /\ now.ref.oid = before.ref.oid
  IN same(Look(name), LookPre(name))

C10_PackAllKeeps ==
  (/\ last.op = "packall"
   /\ last.rc = OK
   /\ \A p \in LooseUnderRefs(Pre) : WellFormedDirect(Pre.files[p]))
  => \A name \in LooseUnderRefs(Pre) \cup PackedNames(Pre) :
       /\ name \in PackedNames(World)
       /\ ~LooseAt(World, name)
       /\ PackedAs(name)
       /\ (LooseAt(Pre, name) => Look(name).ref.oid = LooseOid(Pre, name))

C10_Witness ==
  /\ last.op = "packall"
  /\ last.rc = OK
  /\ \E name \in LooseUnderRefs(Pre) \cap PackedNames(Pre) :
       /\ WellFormedDirect(Pre.files[name])
       /\ PackedOid(Pre, name) # LooseOid(Pre, name)
       /\ name \in PackedNames(World)

\* A loose file that holds a symbolic ref as loose_write writes it.
WellFormedSymbolic(data) ==
  /\ Len(data) = 3
  /\ data[1] = SymrefTok
  /\ data[2].t = "str"
  /\ data[3] = LF

SymbolicUnderRefs(w) ==
  {p \in LooseUnderRefs(w) : WellFormedSymbolic(w.files[p])}

\* C11: a pack_all on a repository whose loose files under refs/ are
\* well-formed, one of them at least a symbolic ref, succeeds; no symbolic
\* ref is listed in packed-refs and its file is left as it was, and every
\* direct ref is listed in packed-refs and has no loose file.
C11_PackAllSkipsSymbolic ==
  (/\ last.op = "packall"
   /\ SymbolicUnderRefs(Pre) # {}
   /\ \A p \in LooseUnderRefs(Pre) \ SymbolicUnderRefs(Pre) :
        WellFormedDirect(Pre.files[p]))
  => /\ last.rc = OK
     /\ \A p \in SymbolicUnderRefs(Pre) :
          /\ p \notin PackedNames(World)
          /\ p \in DOMAIN files
          /\ files[p] = Pre.files[p]
     /\ \A p \in LooseUnderRefs(Pre) \ SymbolicUnderRefs(Pre) :
          /\ p \in PackedNames(World)
          /\ ~LooseAt(World, p)

\* What a fresh process finds on the disk of world w, and the refs of w.
DiskLook(w, name) == git_reference_lookup(FreshProcess(w), name)

RefsOf(w) == LooseUnderRefs(w) \cup PackedNames(w)

\* Every ref of world s resolves, from the files of world w, to the OID it
\* resolves to from the files of s.
ResolvesAsIn(w, s) ==
  LET same(now, before) ==
        /\ before.rc = OK
        /\ now.rc = OK
        /\ "OID" \in now.ref.flags
        /\ now.ref.oid = before.ref.oid
  IN \A name \in RefsOf(s) : same(DiskLook(w, name), DiskLook(s, name))

\* Every loose file of world s is in world w as it was.
LooseIntact(w, s) ==
  \A p \in LooseUnderRefs(s) : p \in DOMAIN w.files /\ w.files[p] = s.files[p]

\* C12: while a pack_all has not committed packed-refs, every loose file is
\* as it was when the call began; at every step of the call, and after the
\* process died at any step, every ref resolves from the files on disk to
\* the OID it had when the call began; and after a call that failed, at the
\* commit or before it, every loose file is as it was.
C12_PackAllNeverLosesRefs ==
  /\ (run.pc = "write" => LooseIntact(World, run.start))
  /\ (run.pc # "idle" => ResolvesAsIn(World, run.start))
  /\ ((run.pc = "idle" /\ last.op = "crash") => ResolvesAsIn(World, Pre))
  /\ ((run.pc = "idle" /\ last.op = "packall" /\ last.rc # OK)
      => (LooseIntact(World, Pre) /\ ResolvesAsIn(World, Pre)))

\* The process died in the sweep with one loose file unlinked and another
\* still there.
C12_Witness ==
  /\ run.pc = "idle"
  /\ last.op = "crash"
  /\ run.crashed = "after"
  /\ \E p \in LooseUnderRefs(Pre) : p \notin DOMAIN files
  /\ \E p \in LooseUnderRefs(Pre) : p \in DOMAIN files

\* C13: after the process of a pack_all died between the commit and the
\* end of the sweep, a pack_all of a fresh process that succeeds leaves none
\* of the loose files that were there when the process died, and
\* packed-refs lists every ref with the OID it resolved to at that time.
C13_RerunCompletes ==
  (/\ run.pc = "idle"
   /\ run.crashed = "after"
   /\ last.op = "packall"
   /\ last.rc = OK)
  => /\ \A p \in LooseUnderRefs(run.at) : ~LooseAt(World, p)
     /\ \A name \in RefsOf(run.at) :
          /\ name \in PackedNames(World)
          /\ DiskLook(run.at, name).rc = OK
          /\ PackedOid(World, name) = DiskLook(run.at, name).ref.oid

C13_Witness ==
  /\ run.pc = "idle"
  /\ run.crashed = "after"
  /\ last.op = "packall"
  /\ last.rc = OK
  /\ LooseUnderRefs(run.at) # {}
  /\ LooseUnderRefs(World) = {}

\* How many times the callback of the last foreach was called with `name`.
TimesCalled(name) ==
  Cardinality({i \in 1..Len(last.calls) : last.calls[i] = name})

\* The names a foreach with LISTALL has to offer: the keys of the packed
\* cache, refreshed by the call, and the loose files under refs/.
ListedNames == DOMAIN packfile.tab \cup LooseUnderRefs(World)

\* C14: a foreach with LISTALL whose callback never returns a negative
\* value succeeds and calls the callback once with every name that is a key
\* of the packed cache or a loose file under refs/, once too with a name
\* that is both, and with no other name.
C14_ForeachListsOnce ==
  (/\ last.op = "foreach"
   /\ last.list_flags = GIT_REF_LISTALL
   /\ last.neg = {})
  => /\ last.rc = OK
     /\ \A name \in ListedNames : TimesCalled(name) = 1
     /\ \A i \in 1..Len(last.calls) : last.calls[i] \in ListedNames

C14_Witness ==
  /\ last.op = "foreach"
  /\ last.list_flags = GIT_REF_LISTALL
  /\ last.neg = {}
  /\ last.rc = OK
  /\ DOMAIN packfile.tab \cap LooseUnderRefs(World) # {}
  /\ DOMAIN packfile.tab \ LooseUnderRefs(World) # {}
  /\ LooseUnderRefs(World) \ DOMAIN packfile.tab # {}
  /\ Len(last.calls) = 3

\* C15: in a foreach the callback is not called again after it returned a
\* negative value: a call with a name on which it does is the last call.
C15_ForeachStops ==
  last.op = "foreach"
  => \A i \in 1..Len(last.calls) :
       (callback(last.neg, last.calls[i]) < 0 => i = Len(last.calls))

\* The callback returned a negative value on a packed name while another
\* packed name and a loose ref had not been offered.
C15_Witness ==
  /\ last.op = "foreach"
  /\ last.list_flags = GIT_REF_LISTALL
  /\ Len(last.calls) = 1
  /\ last.calls[1] \in last.neg
  /\ last.calls[1] \in DOMAIN packfile.tab
  /\ DOMAIN packfile.tab \ {last.calls[1]} # {}
  /\ LooseUnderRefs(World) \ DOMAIN packfile.tab # {}

\* The last call was a delete through a handle that is not packed, of a
\* name that had a well-formed direct loose file and an entry of packed-refs
\* with another OID.
DeletedShadowing ==
  /\ last.op = "delete"
  /\ "PACKED" \notin last.ref.flags
  /\ LooseDirect(Pre, last.name)
  /\ last.name \in PackedNames(Pre)
  /\ PackedOid(Pre, last.name) # LooseOid(Pre, last.name)

\* C16, as stated: after the loose ref of a name that is packed too, with
\* another OID, has been deleted with delete, a lookup of the name returns
\* the packed OID.
C16_DeleteRevealsPacked ==
  DeletedShadowing
  => /\ Look(last.name).rc = OK
     /\ Look(last.name).ref.oid = PackedOid(Pre, last.name)

\* C16, amended: after the loose ref of a name that is packed too, with
\* another OID, has been deleted with delete, the packed entry is deleted
\* as well: a lookup of the name, by this process or a fresh one, is
\* not-found and does not return the packed OID.
C16_DeleteHidesPacked ==
  DeletedShadowing
  => /\ last.rc = OK
     /\ Look(last.name).rc = ENOTFOUND
     /\ DiskLook(World, last.name).rc = ENOTFOUND
     /\ \A name \in PackedNames(Pre) \ {last.name} :
          name \in PackedNames(World) /\ PackedOid(World, name) = PackedOid(Pre, name)

C16_Witness ==
  /\ DeletedShadowing
  /\ last.rc = OK
  /\ PackedNames(Pre) \ {last.name} # {}
  /\ DiskLook(World, last.name).rc = ENOTFOUND

\* C17: a create_oid without force of a name that is a path prefix of an
\* existing ref, loose or packed (refs/a when refs/a/b exists), returns
\* already-exists and writes nothing.
C17_CreateUnderExistingRefused ==
  (/\ last.op = "create_oid"
   /\ ~last.force
   /\ Normalize(last.name, TRUE).rc = OK
   /\ \E E \in RefsOf(Pre) : PathPrefix(Normalize(last.name, TRUE).name, E))
  => /\ last.rc = EEXISTS
     /\ DiskUnchanged

\* The terms of the naming rules: a name holds `sub`, a name holds a
\* character no ref name may hold, and a name with every run of '/' made
\* one '/'.
Contains(name, sub) ==
  \E i \in 1..(Len(name) - Len(sub) + 1) :
    SubSeq(name, i, i + Len(sub) - 1) = sub

HasBadChar(name) ==
  \E i \in 1..Len(name) :
    Ord(name[i]) <= 32 \/ name[i] \in {"~", "^", ":", "\\", "?", "[", "*"}

RECURSIVE CollapseSlashes(_)
CollapseSlashes(name) ==
  IF Len(name) < 2 THEN name
  ELSE IF name[1] = "/" /\ name[2] = "/" THEN CollapseSlashes(Tail(name))
  ELSE <<name[1]>> \o CollapseSlashes(Tail(name))

\* C18: normalize_name with is_oid_ref = 0 rejects as invalid every name
\* that is empty, holds a byte <= 0x20 or one of ~ ^ : \ ? [ *, starts with
\* '.', holds '..' or '@{', or ends with '.', '/' or '.lock'; it accepts
\* every other name and returns it with each run of '/' made one '/'.
C18_NormalizeRules ==
  (last.op = "normalize" /\ ~last.is_oid_ref)
  => IF \/ last.name = <<>>
        \/ HasBadChar(last.name)
        \/ HasPrefix(last.name, <<".">>)
        \/ Contains(last.name, <<".", ".">>)
        \/ Contains(last.name, <<"@", "{">>)
        \/ HasSuffix(last.name, <<".">>)
        \/ HasSuffix(last.name, <<"/">>)
        \/ HasSuffix(last.name, GIT_FILELOCK_EXTENSION)
     THEN last.rc = EINVALIDREFNAME
     ELSE last.rc = OK /\ last.arg = CollapseSlashes(last.name)

\* C19: normalize_name with is_oid_ref = 1 accepts a name only if it holds
\* a '/' and begins with refs/, or is HEAD, MERGE_HEAD or FETCH_HEAD; any
\* other name is rejected as invalid.
C19_OidRefNames ==
  (last.op = "normalize" /\ last.is_oid_ref)
  => IF \/ (Contains(last.name, <<"/">>) /\ HasPrefix(last.name, GIT_REFS_DIR))
        \/ last.name \in {GIT_HEAD_FILE, GIT_MERGE_HEAD_FILE, GIT_FETCH_HEAD_FILE}
     THEN TRUE
     ELSE last.rc = EINVALIDREFNAME

\* A write of the ref `name` is under way, and the ref had a well-formed
\* direct loose file when it began.
Rewriting(name) ==
  /\ run.pc \in {"opened", "printed"}
  /\ FsPath(run.ref.name) = name
  /\ LooseDirect(run.start, name)

\* C20: a lookup, by another process, of a ref that has a loose file while
\* a set_oid or a create_oid writes that ref anew, succeeds and returns a
\* direct handle with the OID the file had before the write or the OID that
\* is written; the file of the ref is at every step one of the two, whole.
C20_ReaderSeesOldOrNew ==
  /\ \A name \in RefNames :
       Rewriting(name)
       => (/\ LooseDirect(World, name)
           /\ LooseOid(World, name) \in {LooseOid(run.start, name), run.ref.oid})
  /\ ((last.op = "read" /\ Rewriting(last.name))
      => (/\ last.rc = OK
          /\ last.ref.flags = {"OID"}
          /\ last.ref.oid \in {LooseOid(run.start, last.name), run.ref.oid}))

\* A read between the printf and the commit of a write of another OID.
C20_Witness ==
  /\ last.op = "read"
  /\ Rewriting(last.name)
  /\ run.pc = "printed"
  /\ run.ref.oid # LooseOid(run.start, last.name)
  /\ last.ref.oid = LooseOid(run.start, last.name)

\* C21: after a delete that succeeded, a lookup of the name of the deleted
\* handle is not-found, also when the handle came from packed-refs and was
\* given a new OID with set_oid before it was deleted.
C21_DeletedIsGone ==
  (last.op = "delete" /\ last.rc = OK)
  => Look(last.name).rc = ENOTFOUND

\* C22: a delete through a packed handle changes no other ref: a lookup of
\* any other name gives after the delete what it gave before it, also when
\* that name was put in the cache by a pack_all of this session and has
\* been written as a loose file with another OID since.
C22_DeletePackedKeepsOthers ==
  (last.op = "delete" /\ "PACKED" \in last.ref.flags)
  => \A M \in RefNames \ {last.name} :
       /\ Look(M).rc = LookPre(M).rc
       /\ Look(M).ref = LookPre(M).ref

\* The last call was a set_oid that succeeded, through a handle read from
\* packed-refs whose entry is there.
SetOidOnPacked ==
  /\ last.op = "set_oid"
  /\ last.rc = OK
  /\ "PACKED" \in last.pre.h.ref.flags
  /\ last.name \in PackedNames(Pre)

\* C23: create_oid, create_symbolic, set_oid and set_target leave the
\* packed-refs file as it was; after a set_oid through a handle read from
\* packed-refs the entry holds the old OID, a loose file holds the new OID
\* and a lookup returns the new OID.
C23_SettersKeepPacked ==
  /\ (last.op \in {"create_oid", "create_symbolic", "set_oid", "set_target"}
      => packed_refs = Pre.packed_refs)
  /\ (SetOidOnPacked
      => /\ PackedOid(World, last.name) = PackedOid(Pre, last.name)
         /\ LooseDirect(World, last.name)
         /\ LooseOid(World, last.name) = last.oid
         /\ Look(last.name).rc = OK
         /\ Look(last.name).ref.oid = last.oid)

\* A set_oid through a packed handle, of another OID than the entry's.
C23_Witness ==
  /\ SetOidOnPacked
  /\ last.oid # PackedOid(Pre, last.name)
  /\ ~LooseAt(Pre, last.name)
  /\ Look(last.name).ref.oid = last.oid

\* C24: after a packed_load of a packed-refs file that is there, the time
\* of the cache is the mtime of the last file that parsed: after a success
\* it is the mtime of the file, and a load that fails on a line leaves the
\* time as it was, so that the next load of the same file fails again.
C24_LoadKeepsParsedTime ==
  (last.op = "load" /\ Pre.packed_refs.exists)
  => IF last.rc = OK
     THEN packfile_time = packed_refs.mtime
     ELSE /\ packfile_time = Pre.packfile_time
          /\ packed_load(World).rc = last.rc

\* C25: a packed_load when there is no packed-refs file succeeds, leaves
\* no entry in the cache and sets its time to 0, so that any packed-refs
\* file that is there at the next load, whatever its mtime, is parsed as by
\* a process that never loaded one.
C25_AbsentResets ==
  (last.op = "load" /\ ~Pre.packed_refs.exists)
  => /\ last.rc = OK
     /\ packfile.tab = EmptyTab
     /\ packfile_time = 0
     /\ \A lines \in PackedFiles, mtime \in 1..(clock + 1) :
          LET created(w) ==
                /\ packed_load(w).rc = packed_load(FreshProcess(w)).rc
                /\ packed_load(w).w.packfile = packed_load(FreshProcess(w)).w.packfile
          IN created([World EXCEPT !.packed_refs =
                        [exists |-> TRUE, lines |-> lines, mtime |-> mtime]])

\* A peel line of `lines` that does not come right after the ref line of a
\* ref under refs/tags/: the first entry, after another peel line, or after
\* the ref line of another ref.
MisplacedPeel(lines) ==
  \E i \in 1..Len(lines) :
    /\ lines[i].k = "peel"
    /\ \/ i = 1
       \/ lines[i - 1].k # "ref"
       \/ ~HasPrefix(lines[i - 1].name, GIT_REFS_TAGS_DIR)

\* C26: a packed_load of a packed-refs file with a peel line that does not
\* come right after the ref line of a ref under refs/tags/ fails with
\* packed-refs-corrupt and leaves no entry in the cache.
C26_MisplacedPeelFails ==
  (/\ last.op = "load"
   /\ Pre.packed_refs.exists
   /\ MisplacedPeel(Pre.packed_refs.lines))
  => /\ last.rc = EPACKEDREFSCORRUPTED
     /\ packfile.tab = EmptyTab

\* Two caches are equal: the same names, and for each name the same OID,
\* the same has-peel flag and, if it is set, the same peel.
SameCache(a, b) ==
  /\ DOMAIN a = DOMAIN b
  /\ \A n \in DOMAIN a :
       /\ a[n].oid = b[n].oid
       /\ (GIT_PACKREF_HAS_PEEL \in a[n].flags) = (GIT_PACKREF_HAS_PEEL \in b[n].flags)
       /\ (GIT_PACKREF_HAS_PEEL \in a[n].flags => a[n].peel = b[n].peel)

\* The last call was a packed_load that parsed the file.
Parsed ==
  /\ last.op = "load"
  /\ last.rc = OK
  /\ Pre.packed_refs.exists
  /\ Pre.packfile_time # Pre.packed_refs.mtime

\* C27: the cache a pack_all has written to packed-refs is the cache a
\* parse of that file gives: the same names, OIDs, has-peel flags and
\* peels; and a ref line followed by a peel line parses to an entry with
\* the has-peel flag and that peel.
C27_PackedRoundTrip ==
  /\ ((last.op = "packall" /\ last.rc = OK)
      => /\ packed_load(FreshProcess(World)).rc = OK
         /\ SameCache(packfile.tab, packed_load(FreshProcess(World)).w.packfile.tab))
  /\ (Parsed
      => \A i \in 1..(Len(packed_refs.lines) - 1) :
           (/\ packed_refs.lines[i].k = "ref"
            /\ packed_refs.lines[i + 1].k = "peel"
            /\ \A j \in (i + 1)..Len(packed_refs.lines) :
                 packed_refs.lines[j].name # packed_refs.lines[i].name)
           => /\ GIT_PACKREF_HAS_PEEL \in packfile.tab[packed_refs.lines[i].name].flags
              /\ packfile.tab[packed_refs.lines[i].name].peel = packed_refs.lines[i + 1].oid)

\* The object at the end of the chain of tags that starts at the object
\* `id`: the first object of the chain that is not a tag.
RECURSIVE PeeledOf(_)
PeeledOf(id) ==
  IF git_odb_exists(id) /\ Odb[id].type = "tag"
  THEN PeeledOf(Odb[id].target)
  ELSE id

\* C28: every peel line a pack_all writes holds the OID of the object that
\* is not a tag at the end of the chain of tags that starts at the OID of
\* the ref line before it, also when a tag of the chain tags a tag.
C28_PeelIsChainEnd ==
  (last.op = "packall" /\ last.rc = OK)
  => \A i \in 2..Len(packed_refs.lines) :
       packed_refs.lines[i].k = "peel"
       => /\ packed_refs.lines[i - 1].k = "ref"
          /\ packed_refs.lines[i].oid = PeeledOf(packed_refs.lines[i - 1].oid)

\* The names that world w holds both as a loose file and as an entry of
\* packed-refs, and the API calls that change refs.
InBoth(w) == {name \in PackedNames(w) : LooseAt(w, name)}

ChangingOps == {"create_oid", "create_symbolic", "set_oid", "delete", "rename", "packall"}

\* The name the last call wrote as a loose ref, if it is a call that does.
WrittenLoose ==
  IF last.op \in {"create_oid", "create_symbolic", "set_oid", "set_target"}
  THEN {last.name}
  ELSE IF last.op = "rename" THEN {NewName}
  ELSE {}

\* C29, as stated: a call of the API that found no name both loose and
\* packed leaves no name both loose and packed.
C29_NeverLooseAndPacked ==
  (last.op \in ChangingOps /\ InBoth(Pre) = {})
  => InBoth(World) = {}

\* C29, amended: a name is both loose and packed after a call only if it
\* was before the call or the call wrote it as a loose ref; a delete that
\* succeeded leaves the deleted name not in both, and a pack_all that
\* succeeded leaves no name in both.
C29_BothOnlyByWrite ==
  /\ InBoth(World) \subseteq InBoth(Pre) \cup WrittenLoose
  /\ ((last.op = "delete" /\ last.rc = OK) => last.name \notin InBoth(World))
  /\ ((last.op = "packall" /\ last.rc = OK) => InBoth(World) = {})

\* A set_oid through a packed handle that made the name loose and packed.
C29_Witness ==
  /\ last.op = "set_oid"
  /\ last.rc = OK
  /\ "PACKED" \in last.pre.h.ref.flags
  /\ InBoth(Pre) = {}
  /\ InBoth(World) = {last.name}

\* C30: the handle a lookup, a create_oid or a create_symbolic returns has
\* as its name the normalized form of the name that was asked for, and the
\* loose file a create writes is the file of that name.
C30_HandleNameNormalized ==
  (last.op \in {"lookup", "create_oid", "create_symbolic"} /\ last.rc = OK)
  => /\ last.ref.name = Normalize(last.name, last.op = "create_oid").name
     /\ (last.op # "lookup"
         => Normalize(last.name, last.op = "create_oid").name \in DOMAIN files)

\* The loose file of a name cannot be parsed; the packed-refs file cannot
\* be parsed.
LooseUnparseable(w, name) ==
  LooseAt(w, name) /\ w.files[FsPath(name)] \in CorruptLoose

PackedUnparseable(w) ==
  w.packed_refs.exists /\ w.packed_refs.lines \in CorruptPacked

\* C31: a lookup returns not-found only if there is no loose file of the
\* name and packed-refs is absent or parses and does not list the name; if
\* the loose file cannot be parsed it returns corrupted-loose, whatever
\* packed-refs holds; if there is no loose file and packed-refs cannot be
\* parsed it returns packed-refs-corrupt.
C31_NotFoundOnlyIfBoth ==
  last.op = "lookup"
  => /\ (last.rc = ENOTFOUND
         => /\ ~LooseAt(Pre, last.name)
            /\ ~PackedUnparseable(Pre)
            /\ last.name \notin PackedNames(Pre))
     /\ (LooseUnparseable(Pre, last.name) => last.rc = EOBJCORRUPTED)
     /\ ((~LooseAt(Pre, last.name) /\ PackedUnparseable(Pre))
         => last.rc = EPACKEDREFSCORRUPTED)

\* The last call was a pack_all or a delete that wrote packed-refs.
WrotePacked ==
  /\ last.op \in {"packall", "delete"}
  /\ packed_refs.exists
  /\ packed_refs.mtime # Pre.packed_refs.mtime

\* The indices of the ref lines of a file.
RefLines(lines) == {i \in 1..Len(lines) : lines[i].k = "ref"}

\* C32: a packed-refs file written by pack_all or by delete has one header
\* line, the first, and after it ref lines and peel lines whose ref names
\* are strictly increasing in byte order, so each name is there once; and
\* the cache that was written, written again, gives the same lines.
C32_PackedFileSorted ==
  WrotePacked
  => /\ packed_refs.lines # <<>>
     /\ packed_refs.lines[1] = CommentLine
     /\ \A i \in 2..Len(packed_refs.lines) : packed_refs.lines[i].k \in {"ref", "peel"}
     /\ \A i, j \in RefLines(packed_refs.lines) :
          (i < j) => StrLess(packed_refs.lines[i].name, packed_refs.lines[j].name)
     /\ packed_write(World).w.packed_refs.lines = packed_refs.lines
     /\ packed_write(World).w.packed_refs.mtime # packed_refs.mtime

\* A delete has written a file of two entries, one with a peel line, from
\* a cache that was read from a file that did not list them in order.
C32_Witness ==
  /\ WrotePacked
  /\ last.op = "delete"
  /\ Cardinality(RefLines(packed_refs.lines)) = 2
  /\ \E i \in 1..Len(packed_refs.lines) : packed_refs.lines[i].k = "peel"
  /\ \E i, j \in RefLines(Pre.packed_refs.lines) :
       i < j /\ StrLess(Pre.packed_refs.lines[j].name, Pre.packed_refs.lines[i].name)

====
